---------------------------- MODULE Spec2Model ----------------------------
(***************************************************************************)
(* Maestro (voxmedia/maestro): the run coordinator, the job monitor, the   *)
(* import workers and the external-wait registry, as a state machine over  *)
(* the catalog (runs, jobs, tables), the warehouse and the process-local   *)
(* state of one Maestro process.                                           *)
(*                                                                         *)
(* Strings of the program are kept where they decide control flow:        *)
(* job states "" / "RUNNING" / "DONE", job types "query" / "load" /        *)
(* "extract".  Error texts are abstracted to the classes the code tests    *)
(* them for: "retry" (contains bqRetryingErr), "schema" (contains          *)
(* bqSchemaErr), "other" (any other warehouse error), "submit" (an error   *)
(* returned by StartJob), "import", "timeout".                              *)
(***************************************************************************)
EXTENDS Integers, Sequences, FiniteSets, TLC

\* ------------------------------------------------------------------ bounds
MaxRuns == 2         \* runs assembled in one behaviour
MaxLoadRuns == 1     \* the same, in the scenarios with a load job
MaxInputs == 2       \* kills, Resume calls, failures and idle polls together
MaxResumeInputs == 1 \* the same, in the scenario of two frequencies
MaxBackoffPolls == 9 \* idle polls in the polling scenario
MaxBQ == 3           \* warehouse jobs minted by StartJob
MaxTolerateInputs == 3  \* Resume calls and failures, in the scenarios of a
                        \* resumed run that fails again
MaxTolerateResumes == 1 \* Resume calls among them
MaxClock == 7        \* seconds the clock runs, in the scenario of the tickers
MaxGraphOps == 5     \* calls that build a graph before it is drained
MaxNames == 3        \* names of the items of that graph
MaxQueryLen == 7     \* pieces of a query text given to tablesInQuery
MaxGoroutines == 2   \* goroutines at the mutex of the two maps
MaxSourceRows == 2    \* rows of the source of an import table
MaxLiveInputs == 1   \* failures in the run whose end is awaited

\* ------------------------------------------------------- program constants
WORKERS == 6             \* import workers
maxBackoff == 15000      \* pause(): cap, ms
backoffGrowthFactor == 18   \* pause(): growth factor 1.8, in tenths
backoffGrowthDamper == 25   \* pause(): damper 0.25, in hundredths
initialBackoff == 1000   \* waitForJob(): time.Second, ms

ImpNone == "none"
ImpQueued == "queued"
ImpRunning == "running"
ImpDone == "done"
ImpError == "error"

Second == 1     \* time.Second, the unit of the clock
chanCap == 8    \* triggerRuns(): make(chan runTick, 8)

Nil == 0        \* nil pointer, NULL column, empty bq_job_id
csName == 0     \* the sentinel's name "" sorts before every table id

VARIABLES
  cfg,       \* the tables of the catalog as defined by their owners (static)
  runs,      \* catalog: run rows, by id
  jobs,      \* catalog: bq_jobs rows, by id
  tables,    \* catalog: the mutable columns of the tables rows
  bq,        \* warehouse: the jobs StartJob minted, by warehouse-side id
  loops,     \* process: monitorRun goroutines
  monitors,  \* process: monitorJob goroutines
  imports,   \* process: Model.imports
  queue,     \* process: Model.importQueue
  tasks,     \* process: import tasks a worker is running
  waits,     \* process: Model.externalWaits and the timeout goroutines
  calls,     \* process: requests of users that a handler is working on
  used,      \* how much of each bound the behaviour has used
  lim,       \* the bounds of the scenario, by name
  ev,        \* the step just taken, where it is one of Notable
  ticker,    \* process: the clock, the runTicker goroutines and their channel
  rows,      \* by import table: last_id, the rows staged and the rows loaded
  graph,     \* a scheduler.Graph that a caller of the package holds
  drain,     \* that caller: what it has called and what was returned
  condition, \* a scheduler.Condition that a caller holds, and what it got
  sql,       \* a query text that a caller of tablesInQuery holds, and the result
  mu         \* the mutex m.x, the two maps it protects and goroutines at them

\* the values of the scheduler package under direct calls
aside == <<graph, drain, condition, sql, mu>>

\* the state of one Maestro process and its catalog and warehouse
maestro == <<cfg, runs, jobs, tables, bq, loops, monitors, imports, queue,
             tasks, waits, calls, used, lim, ev, ticker, rows>>

vars == <<cfg, runs, jobs, tables, bq, loops, monitors, imports, queue, tasks,
          waits, calls, used, lim, ev, ticker, rows, graph, drain, condition,
          sql, mu>>

\* ----------------------------------------------------------------- helpers
Range(s) == {s[i] : i \in DOMAIN s}

Min(a, b) == IF a < b THEN a ELSE b

RECURSIVE SortedSeq(_)
\* sort.Strings on names: ascending (table ids are single digits here)
SortedSeq(S) ==
  IF S = {} THEN <<>>
  ELSE LET x == CHOOSE y \in S : \A z \in S : y <= z
       IN <<x>> \o SortedSeq(S \ {x})

TableIds == DOMAIN cfg.kind

IsImport(t) == cfg.kind[t] = "import"
IsExternal(t) == cfg.kind[t] = "external"

\* the rows of the freqs table
Freqs == cfg.freqs

\* ------------------------------------------------------ scheduler.Graph
NewGraph == << >>

addItem(g, n) ==
  IF n \in DOMAIN g THEN g ELSE g @@ (n :> [parents |-> {}, children |-> {}])

\* Relate(parent, child); parent = -1 stands for the nil parent
Relate(g, p, c) ==
  LET g1 == addItem(g, c) IN
  IF p = -1 THEN g1
  ELSE LET g2 == addItem(g1, p)
           g3 == [g2 EXCEPT ![c].parents = @ \cup {p}]
       IN [g3 EXCEPT ![p].children = @ \cup {c}]

RECURSIVE RelateAll(_, _, _)
RelateAll(g, ps, c) ==
  IF ps = {} THEN g
  ELSE LET p == CHOOSE x \in ps : TRUE
       IN RelateAll(Relate(g, p, c), ps \ {p}, c)

RECURSIVE SentinelUnder(_, _)
SentinelUnder(g, leaves) ==
  IF leaves = {} THEN g
  ELSE LET n == CHOOSE x \in leaves : TRUE
       IN SentinelUnder(Relate(g, n, csName), leaves \ {n})

\* a childSentinel that adds nothing
noSentinel(g) == g

childSentinel(g) ==
  IF csName \in DOMAIN g THEN g
  ELSE SentinelUnder(g, {n \in DOMAIN g : n # csName /\ g[n].children = {}})

RECURSIVE bft(_, _, _, _, _)
\* bftUp (up = TRUE) and bftDown: the names in the order action() sees them
bft(g, up, q, seen, out) ==
  IF q = <<>> THEN out
  ELSE LET n == Head(q) IN
       IF n \in seen THEN bft(g, up, Tail(q), seen, out)
       ELSE LET next == IF up THEN g[n].parents ELSE g[n].children
            IN bft(g, up, Tail(q) \o SortedSeq(next), seen \cup {n},
                   Append(out, n))

bftUp(g, start) == IF start \in DOMAIN g THEN bft(g, TRUE, <<start>>, {}, <<>>) ELSE <<>>
bftDown(g, start) == bft(g, FALSE, <<start>>, {}, <<>>)

RECURSIVE StableInsert(_, _)
\* sort.SliceStable by Score descending: insert x after every entry whose
\* score is >= x's
StableInsert(s, x) ==
  IF s = <<>> THEN <<x>>
  ELSE IF Head(s).Score >= x.Score THEN <<Head(s)>> \o StableInsert(Tail(s), x)
       ELSE <<x>> \o s

RECURSIVE StableSort(_)
StableSort(s) ==
  IF s = <<>> THEN <<>>
  ELSE StableInsert(StableSort(SubSeq(s, 1, Len(s) - 1)), s[Len(s)])

\* Scores() on the graph with its sentinel in place
Scores(gs) ==
  LET order == bftUp(gs, csName)
      named == SelectSeq(order, LAMBDA n : n # csName)
      sc == [i \in DOMAIN named |->
               [Score |-> Len(bftDown(gs, named[i])) - 2, Name |-> named[i]]]
  IN StableSort(sc)

\* ReadyItems(): the names returned and whether "Cycle detected." is returned
ReadyItems(g) ==
  LET gs == childSentinel(g)
      sc == Scores(gs)
      rdy == SelectSeq(sc, LAMBDA e : gs[e.Name].parents = {})
      names == [i \in DOMAIN rdy |-> rdy[i].Name]
  IN [items |-> names,
      err |-> Cardinality(DOMAIN gs) > 1 /\ names = <<>>]


\* a RemoveItem that leaves the node in the parents of its children
RemoveItemKeepsEdges(g, name) ==
  IF name \notin DOMAIN g THEN [g |-> g, err |-> FALSE]
  ELSE IF g[name].parents # {} THEN [g |-> g, err |-> TRUE]
  ELSE [g |-> [m \in DOMAIN g \ {name} |-> g[m]], err |-> FALSE]

\* RemoveItem(name): the graph after the call and whether an error is returned
RemoveItem(g, name) ==
  IF name \notin DOMAIN g THEN [g |-> g, err |-> FALSE]
  ELSE IF g[name].parents # {} THEN [g |-> g, err |-> TRUE]
  ELSE [g |-> [m \in DOMAIN g \ {name} |->
                 IF m \in g[name].children
                   THEN [g[m] EXCEPT !.parents = @ \ {name}]
                   ELSE g[m]],
        err |-> FALSE]

RECURSIVE RemoveItems(_, _)
\* RemoveItem on every name of a list, errors ignored
RemoveItems(g, names) ==
  IF names = <<>> THEN g
  ELSE RemoveItems(RemoveItem(g, Head(names)).g, Tail(names))

\* ------------------------------------------------------------ the catalog
NoError == [kind |-> "", of |-> ""]

\* a bq_jobs row as newBQQueryJob / newBQLoadJob / newBQExtractJob build it
NewJob(t, r, ps, ty) ==
  [table |-> t, run |-> r, parents |-> ps, type |-> ty,
   bqid |-> Nil, state |-> "", err |-> "", ended |-> FALSE]

RunIds == DOMAIN runs
JobIds == DOMAIN jobs

\* SelectBQJobsByRunId: the ids of the run's jobs, ORDER BY id
SelectBQJobsByRunId(r) == SortedSeq({j \in JobIds : jobs[j].run = r})

\* a catalog without the unique index
NoUniqueIndex(r, f) == FALSE

\* the unique index runs_freq_id_end_time_null_idx: would row r, with
\* end_time NULL, collide with another row of the same frequency
UniqueViolation(r, f) ==
  \E o \in RunIds : o # r /\ runs[o].freq = f /\ ~runs[o].ended

\* InsertRun: the new rows, or the rows unchanged when the index refuses
InsertRun(u, f) ==
  IF UniqueViolation(Nil, f) THEN runs
  ELSE Append(runs, [freq |-> f, user |-> u, ended |-> FALSE, error |-> NoError])

\* UpdateRun of row r to (ended, error): refused by the index when it would
\* make a second row of the frequency with end_time NULL
UpdateRunOk(r, ended) == ended \/ ~UniqueViolation(r, runs[r].freq)

UpdateRun(r, ended, error) ==
  [runs EXCEPT ![r] = [@ EXCEPT !.ended = ended, !.error = error]]

\* RunningBQJobs: bq_job_id != '' AND end_time IS NULL (the model keeps no
\* clock, so the disjunct end_time < start_time selects nothing)
RunningBQJobs == {j \in JobIds : jobs[j].bqid # Nil /\ ~jobs[j].ended}

UnfinishedRuns == {r \in RunIds : ~runs[r].ended}

\* ----------------------------------------------------------------- Assemble
\* a table's name without its dataset (the table's id where the scenario
\* gives no names), its run-conditions (none where the scenario gives none),
\* each condition the set of moments that satisfy it, and whether the table
\* has no deleted_at
Name(t) == IF "name" \in DOMAIN cfg THEN cfg.name[t] ELSE t
Conditions(t) == IF "cond" \in DOMAIN cfg THEN cfg.cond[t] ELSE <<>>
Live(t) == "deleted" \in DOMAIN cfg => t \notin cfg.deleted

\* the moment of the next assembly: time passes from one run to the next
Now == Len(runs) + 1

\* a conditionsSatisfied that takes an empty list as not satisfied
conditionsNeedOne(t, now) ==
  \E i \in DOMAIN Conditions(t) : now \in Conditions(t)[i]

\* Table.conditionsSatisfied: an empty list is satisfied
conditionsSatisfied(t, now) ==
  \/ Len(Conditions(t)) = 0
  \/ \E i \in DOMAIN Conditions(t) : now \in Conditions(t)[i]

\* tablesAsMap: the live tables, by dataset and name
tablesAsMap == {t \in TableIds : Live(t)}

\* singleTableParents: the tables the child's SQL names (cfg.par) that are in
\* the map, the child itself left out
singleTableParents(child) == {p \in cfg.par[child] : p \in tablesAsMap /\ p # child}

\* TablesParents: result[child.Name] = parents, for the children in the order
\* given, so that of two children of one name the later one's parents stay
TablesParents(children) ==
  [n \in {Name(children[i]) : i \in DOMAIN children} |->
     LET last == CHOOSE i \in DOMAIN children :
                   /\ Name(children[i]) = n
                   /\ \A k \in DOMAIN children : Name(children[k]) = n => k <= i
     IN singleTableParents(children[last])]

\* the job Assemble inserts for table t of run r: only a summary table's job
\* records parents, those found under the table's name
AssembledJob(t, r, parents) ==
  IF IsImport(t) \/ IsExternal(t) THEN NewJob(t, r, {}, "load")
  ELSE NewJob(t, r, parents[Name(t)], "query")

RECURSIVE AssembleJobs(_, _, _)
AssembleJobs(ts, r, parents) ==
  IF ts = <<>> THEN <<>>
  ELSE <<AssembledJob(Head(ts), r, parents)>>
         \o AssembleJobs(Tail(ts), r, parents)

\* a monitorRun goroutine for run r; ign is Run.ignoreErrors and max is
\* Run.maxErrCnt of its copy of the run.  id tells the goroutines apart
NewLoop(r, ign) ==
  [id |-> CHOOSE n \in 1..(Cardinality(loops) + 1) :
            /\ \A l \in loops : l.id # n
            /\ \A k \in 1..(n - 1) : \E l \in loops : l.id = k,
   run |-> r, ign |-> ign, max |-> 0, pc |-> IF ign THEN "init" ELSE "idle",
   ready |-> <<>>, minted |-> Nil]

\* the steps ev tells apart
Notable ==
  {"init", "assemble_refused", "resume_refused", "submit_failed", "restart",
   "poll_error", "submitted", "start_job_retried", "set_queued",
   "external_wait", "resume_failed", "assemble_again", "tick_dropped"}

Event(k, r, j) ==
  IF k \in Notable THEN [kind |-> k, run |-> r, job |-> j]
  ELSE [kind |-> "", run |-> Nil, job |-> Nil]

\* one more input of kind c ("kill", "resume", "fault", "poll"), where the
\* scenario allows the kind
Spend(c) ==
  /\ c \in lim.kinds
  /\ used.inputs < lim.inputs
  /\ used' = [used EXCEPT !.inputs = @ + 1]

\* an input that is a failure counts against the bound on inputs
MayFail(failure) == IF failure THEN Spend("fault") ELSE UNCHANGED used

\* NewRun, Assemble, Start
AssembleRun(f, u) ==
  /\ Len(runs) < lim.runs
  /\ runs' = InsertRun(u, f)
  /\ IF runs' = runs
       THEN /\ ev' = Event("assemble_refused", Nil, Nil)
            /\ UNCHANGED <<jobs, loops>>
       ELSE LET r == Len(runs')
                ts == SortedSeq({t \in TableIds :
                                   /\ Live(t) /\ cfg.freq[t] = f
                                   /\ conditionsSatisfied(t, Now)})
            IN /\ jobs' = jobs \o AssembleJobs(ts, r, TablesParents(ts))
               /\ loops' = loops \cup {NewLoop(r, FALSE)}
               /\ ev' = Event("assemble", r, Nil)
  /\ UNCHANGED <<cfg, rows, aside, calls, tables, bq, monitors, imports, queue,
                 tasks, waits, used, lim>>

\* runStartGetHandler, or a tick where the scenario keeps no clock
Assemble(f, u) == AssembleRun(f, u) /\ UNCHANGED ticker

\* Assemble returns an error after InsertRun: TablesByFrequency or
\* TablesParents fails (no job inserted), or ImportDataset or InsertBQJob
\* fails at a table (the jobs of the tables before it are inserted); its
\* caller logs the error and does not call Start
AssembleFails(f, u) ==
  /\ Len(runs) < lim.runs
  /\ Spend("fault")
  /\ runs' = InsertRun(u, f)
  /\ runs' # runs
  /\ LET r == Len(runs')
         ts == SortedSeq({t \in TableIds :
                            /\ Live(t) /\ cfg.freq[t] = f
                            /\ conditionsSatisfied(t, Now)})
     IN \E n \in 0..Len(ts) :
          /\ n = Len(ts) => n = 0
          /\ jobs' = jobs \o SubSeq(AssembleJobs(ts, r, TablesParents(ts)), 1, n)
          /\ ev' = Event("assemble_failed", r, Nil)
  /\ UNCHANGED <<cfg, rows, ticker, aside, calls, tables, bq, loops, monitors,
                 imports, queue, tasks, waits, lim>>

\* Assemble called again on a run that has its id: it returns an error
AssembleAgain(r) ==
  /\ r \in RunIds
  /\ Spend("again")
  /\ ev' = Event("assemble_again", r, Nil)
  /\ UNCHANGED <<cfg, rows, ticker, aside, calls, runs, jobs, tables, bq, loops, monitors, imports,
                 queue, tasks, waits, lim>>

\* ------------------------------------------------------------------ ticker
\* the frequencies that are active: those the scenario gives a period
ActiveFreqs == IF "period" \in DOMAIN cfg THEN DOMAIN cfg.period ELSE {}

\* time.Time.Truncate: t rounded down to a multiple of d, t itself for d <= 0
Truncate(t, d) == IF d <= 0 THEN t ELSE t - (t % d)

\* a runTicker that takes the truncated moment plus offset when it is now
nextFiringNotBefore(now, period, offset) ==
  IF Truncate(now, period) + offset >= now
    THEN Truncate(now, period) + offset
    ELSE Truncate(now, period) + period + offset

\* runTicker: the next firing as computed at moment now
nextFiring(now, period, offset) ==
  IF Truncate(now, period) + offset > now
    THEN Truncate(now, period) + offset
    ELSE Truncate(now, period) + period + offset

\* a runTicker at the top of its loop
Computing == [pc |-> "compute", at |-> 0, next |-> 0, wake |-> 0]

NoTicker == [clock |-> 0, tk |-> <<>>, ch |-> <<>>]

\* time passes
ClockTick ==
  /\ "clock" \in lim.kinds
  /\ ticker.clock < MaxClock
  /\ ticker' = [ticker EXCEPT !.clock = @ + Second]
  /\ ev' = Event("clock", Nil, Nil)
  /\ UNCHANGED <<cfg, rows, aside, calls, runs, jobs, tables, bq, loops, monitors,
                 imports, queue, tasks, waits, used, lim>>

\* runTicker: computes next and goes to sleep, for one second where next is
\* before now and until next otherwise
TickerCompute(f) ==
  /\ f \in ActiveFreqs
  /\ ticker.tk[f].pc = "compute"
  /\ LET now == ticker.clock
         next == nextFiring(now, cfg.period[f], cfg.offset[f])
     IN ticker' = [ticker EXCEPT !.tk[f] =
          IF next < now
            THEN [pc |-> "nap", at |-> now, next |-> next,
                  wake |-> now + Second]
            ELSE [pc |-> "sleep", at |-> now, next |-> next, wake |-> next]]
  /\ ev' = Event("ticker_compute", Nil, Nil)
  /\ UNCHANGED <<cfg, rows, aside, calls, runs, jobs, tables, bq, loops, monitors,
                 imports, queue, tasks, waits, used, lim>>

\* runTicker: the sleep of one second is over
TickerNapEnd(f) ==
  /\ f \in ActiveFreqs
  /\ ticker.tk[f].pc = "nap"
  /\ ticker.clock >= ticker.tk[f].wake
  /\ ticker' = [ticker EXCEPT !.tk[f] = Computing]
  /\ ev' = Event("ticker_nap", Nil, Nil)
  /\ UNCHANGED <<cfg, rows, aside, calls, runs, jobs, tables, bq, loops, monitors,
                 imports, queue, tasks, waits, used, lim>>

\* runTicker: the sleep until next is over, the tick goes into the channel
TickerSend(f) ==
  /\ f \in ActiveFreqs
  /\ ticker.tk[f].pc = "sleep"
  /\ ticker.clock >= ticker.tk[f].wake
  /\ Len(ticker.ch) < chanCap
  /\ ticker' = [ticker EXCEPT
       !.ch = Append(@, [freq |-> f,
                         tooLate |-> ticker.tk[f].next + cfg.period[f]]),
       !.tk[f] = Computing]
  /\ ev' = Event("ticker_send", Nil, Nil)
  /\ UNCHANGED <<cfg, rows, aside, calls, runs, jobs, tables, bq, loops, monitors,
                 imports, queue, tasks, waits, used, lim>>

\* a receiver that takes every tick
NeverTooLate(t, now) == TRUE

\* triggerRuns: t.tooLate.After(now)
InTime(t, now) == t.tooLate > now

\* triggerRuns: the receiver takes a tick and starts a run, or drops the tick
ReceiveTick ==
  /\ ticker.ch # <<>>
  /\ ticker' = [ticker EXCEPT !.ch = Tail(@)]
  /\ IF InTime(Head(ticker.ch), ticker.clock)
       THEN AssembleRun(Head(ticker.ch).freq, Nil)
       ELSE /\ ev' = Event("tick_dropped", Nil, Nil)
            /\ UNCHANGED <<cfg, rows, aside, calls, runs, jobs, tables, bq, loops,
                           monitors, imports, queue, tasks, waits, used, lim>>

\* ------------------------------------------------------ incremental import
\* the ids of the rows of an import table's source
SourceRows == 1..MaxSourceRows

\* last: the table's last_id in the catalog; staged: the rows of the file the
\* latest extract wrote, and whether its load replaces the table; loaded: the
\* rows the warehouse table holds
NoRows == [last |-> 0, staged |-> {}, replace |-> FALSE, loaded |-> {}]

\* wrapPgStmt: WHERE id > last_id ORDER BY id, with the last_id of the task's
\* copy of the table
RowsAfter(from) == {i \in SourceRows : i > from}

\* TableReader.LastId: the id of the last row read
LastIdRead(from) ==
  IF RowsAfter(from) = {} THEN from
  ELSE CHOOSE i \in RowsAfter(from) : \A j \in RowsAfter(from) : j <= i

\* runImport: the rows are written to the object store and setLastId saves
\* the last id read
Extracted(row, k) ==
  [row EXCEPT !.last = LastIdRead(k.from), !.staged = RowsAfter(k.from),
              !.replace = k.full]

\* the warehouse completes the load job: WRITE_APPEND, or WRITE_TRUNCATE for
\* a reimport
Loaded(row) ==
  [row EXCEPT !.loaded = IF row.replace THEN row.staged
                         ELSE @ \cup row.staged]

\* --------------------------------------------------------------- warehouse
\* the latest job of table p in run r, Nil when the run has none
LatestJobOf(p, r) ==
  LET js == {k \in JobIds : jobs[k].table = p /\ jobs[k].run = r}
  IN IF js = {} THEN Nil ELSE CHOOSE k \in js : \A o \in js : o <= k

\* every listed parent that has a job in the run of job j has finished, with no
\* error (recorded when StartJob is called for j)
ParentsDone(j) ==
  \A p \in jobs[j].parents :
    LET k == LatestJobOf(p, jobs[j].run)
    IN k = Nil \/ (jobs[k].state = "DONE" /\ jobs[k].err = "" /\ jobs[k].ended)

\* the warehouse's record of a job StartJob minted for row j.  via, attempt,
\* prev (the row's bq_job_id in the catalog when StartJob was called), pok,
\* life (the number of restarts before the call), acked (submitJob returned
\* nil) and written (UpdateBQJob stored this id) record how the job came to be
Minted(j, via, attempt, acked) ==
  [job |-> j, result |-> "running", via |-> via, attempt |-> attempt,
   prev |-> jobs[j].bqid, pok |-> ParentsDone(j), life |-> used.lives,
   acked |-> acked, written |-> FALSE]

\* the same for a job that the step inserts as row j, with no parents
MintedNew(j, via, attempt) ==
  [job |-> j, result |-> "running", via |-> via, attempt |-> attempt,
   prev |-> Nil, pok |-> TRUE, life |-> used.lives, acked |-> TRUE,
   written |-> FALSE]

\* the outcomes of submitJob's calls of StartJob: "ok"; "temp_ok", a first
\* call that fails with "server encountered a temporary error" and a second
\* that succeeds; "temp_fail", both fail; "fail", any other error
SubmitOutcomes == {"ok", "temp_ok", "temp_fail", "fail"}

\* submitJob up to its return or its UpdateBQJob: the warehouse after the
\* StartJob calls.  After "temp_ok" submitJob falls through to "return err"
\* with err = nil: it returns nil and never records the new job
StartJob(j, via, out) ==
  CASE out = "ok"      -> Append(bq, Minted(j, via, 1, FALSE))
    [] out = "temp_ok" -> Append(bq, Minted(j, via, 2, TRUE))
    [] OTHER           -> bq

Mints(out) == out \in {"ok", "temp_ok"}

\* updateJobWithBQData with the job StartJob returned: a job that has not
\* finished
Submitted(row, b) ==
  [row EXCEPT !.bqid = b, !.state = "RUNNING", !.err = ""]

\* submitJob's UpdateBQJob and return nil
RecordSubmit(j, row, b) ==
  /\ jobs' = [jobs EXCEPT ![j] = Submitted(row, b)]
  /\ bq' = [bq EXCEPT ![b] = [@ EXCEPT !.acked = TRUE, !.written = TRUE]]

NewMonitor(j, row) ==
  [job |-> j, row |-> row, pc |-> "wait", backoff |-> initialBackoff,
   minted |-> Nil]

\* ------------------------------------------------------------ the run loop
\* countErrors: the run's jobs with an error, schema mismatches not counted
countErrors(r) ==
  Cardinality({j \in JobIds : jobs[j].run = r /\ jobs[j].err \notin {"", "schema"}})

RECURSIVE UnfinishedById(_, _, _, _)
\* loadRunUnfinishedJobGraph's loop over the run's jobs, in id order: byId
UnfinishedById(js, errCnt, max, byId) ==
  IF js = <<>> THEN byId
  ELSE LET j == jobs[Head(js)] IN
       IF j.err = "schema" THEN UnfinishedById(Tail(js), errCnt, max, byId)
       ELSE LET n == IF j.err # "" THEN errCnt + 1 ELSE errCnt
                inc == j.state # "DONE"
                        \/ (j.err # "" /\ (max = 0 \/ (max > 0 /\ n > max)))
            IN UnfinishedById(Tail(js), n, max,
                 IF inc THEN (j.table :> Head(js)) @@ byId ELSE byId)

RECURSIVE GraphFrom(_, _, _)
\* graphFromJobsById: byId maps a table id to the job that stands for it
GraphFrom(byId, ts, g) ==
  IF ts = {} THEN g
  ELSE LET t == CHOOSE x \in ts : TRUE
           ps == jobs[byId[t]].parents \cap DOMAIN byId
       IN GraphFrom(byId, ts \ {t},
                    IF ps = {} THEN Relate(g, -1, t) ELSE RelateAll(g, ps, t))

graphFromJobsById(byId) == GraphFrom(byId, DOMAIN byId, NewGraph)

loadRunUnfinishedById(r, max) ==
  UnfinishedById(SelectBQJobsByRunId(r), 0, max, << >>)

SetLoop(l, l2) == loops' = (loops \ {l}) \cup {l2}

\* the next item of the ready list, or the end of the cycle (the loop sleeps)
Advance(l) ==
  IF Len(l.ready) <= 1 THEN [l EXCEPT !.ready = <<>>, !.pc = "idle", !.minted = Nil]
  ELSE [l EXCEPT !.ready = Tail(@), !.pc = "items", !.minted = Nil]

\* monitorRun going on to its sleep whatever processCycle returned
KeepsRunning(l, e) ==
  /\ UNCHANGED runs
  /\ SetLoop(l, Advance(l))

\* processCycle returns err: monitorRun stamps the run and returns
FailRun(l, e) ==
  /\ runs' = UpdateRun(l.run, TRUE, e)
  /\ loops' = loops \ {l}

\* monitorRun of a resumed run: countErrors sets maxErrCnt
LoopInit(l) ==
  /\ l.pc = "init"
  /\ SetLoop(l, [l EXCEPT !.pc = "idle", !.max = countErrors(l.run)])
  /\ ev' = Event("loop_init", l.run, Nil)
  /\ UNCHANGED <<cfg, rows, ticker, aside, calls, runs, jobs, tables, bq, monitors, imports, queue, tasks,
                 waits, used, lim>>

\* processCycle up to its loop over the ready items
CycleLoad(l) ==
  /\ l.pc = "idle"
  /\ LET byId == loadRunUnfinishedById(l.run, l.max)
         g == graphFromJobsById(byId)
         ri == ReadyItems(g)
         \* a ready job with a bq_job_id and no error gets nothing done to it
         todo == SelectSeq(ri.items, LAMBDA t :
                   jobs[byId[t]].err # "" \/ jobs[byId[t]].bqid = Nil)
     IN IF DOMAIN g = {}
          THEN /\ runs' = UpdateRun(l.run, TRUE, NoError)
               /\ loops' = loops \ {l}
               /\ ev' = Event("run_complete", l.run, Nil)
        ELSE IF ri.err
          THEN /\ FailRun(l, [kind |-> "cycle", of |-> ""])
               /\ ev' = Event("run_failed", l.run, Nil)
        ELSE /\ SetLoop(l, [l EXCEPT
                    !.pc = IF todo = <<>> THEN "idle" ELSE "items",
                    !.ready = [i \in DOMAIN todo |->
                                 [id |-> byId[todo[i]],
                                  row |-> jobs[byId[todo[i]]]]]])
             /\ ev' = Event("cycle_load", l.run, Nil)
             /\ UNCHANGED runs
  /\ UNCHANGED <<cfg, rows, ticker, aside, calls, jobs, tables, bq, monitors, imports, queue, tasks, waits,
                 used, lim>>

Item(l) == Head(l.ready)

\* Model.externalWaits[t]: on, whether the map has the entry; job, the
\* entry's job; timer, whether the entry's timeout goroutine is waiting;
\* orphans, the timeout goroutines of entries that were overwritten
NoWait == [on |-> FALSE, job |-> Nil, timer |-> FALSE, orphans |-> 0]

\* m.externalWaits[t.Id] = ew; go func(...): the entry w was there before
Registered(w, j) ==
  [on |-> TRUE, job |-> j, timer |-> TRUE,
   orphans |-> IF w.timer THEN w.orphans + 1 ELSE w.orphans]

\* a ready job with an error fails the run
ItemFail(l) ==
  /\ l.pc = "items"
  /\ Item(l).row.err # ""
  /\ FailRun(l, [kind |-> "job", of |-> Item(l).row.err])
  /\ ev' = Event("run_failed", l.run, Item(l).id)
  /\ UNCHANGED <<cfg, rows, ticker, aside, calls, jobs, tables, bq, monitors, imports, queue, tasks, waits,
                 used, lim>>

\* a ready load job whose import failed fails the run
ItemImportFail(l) ==
  /\ l.pc = "items"
  /\ Item(l).row.err = "" /\ Item(l).row.bqid = Nil /\ Item(l).row.type = "load"
  /\ imports[Item(l).row.table] = ImpError
  /\ FailRun(l, [kind |-> "import", of |-> ""])
  /\ ev' = Event("run_failed", l.run, Item(l).id)
  /\ UNCHANGED <<cfg, rows, ticker, aside, calls, jobs, tables, bq, monitors, imports, queue, tasks, waits,
                 used, lim>>

\* a ready load job processCycle leaves alone: its import is queued, running
\* or done, or its external wait exists
ItemSkip(l) ==
  /\ l.pc = "items"
  /\ Item(l).row.err = ""
  /\ LET row == Item(l).row
         t == row.table
     IN /\ row.bqid = Nil /\ row.type = "load"
        /\ \/ imports[t] \in {ImpQueued, ImpRunning, ImpDone}
           \/ imports[t] = ImpNone /\ IsExternal(t) /\ waits[t].on
           \/ imports[t] = ImpNone /\ ~IsImport(t) /\ ~IsExternal(t)
  /\ SetLoop(l, Advance(l))
  /\ ev' = Event("item_skip", l.run, Item(l).id)
  /\ UNCHANGED <<cfg, rows, ticker, aside, calls, runs, jobs, tables, bq, monitors, imports, queue, tasks,
                 waits, used, lim>>

\* a ready load job of an import table: setRunning, then queueImport up to
\* its send on importQueue
ItemEnqueue(l) ==
  /\ l.pc = "items"
  /\ LET row == Item(l).row
         t == row.table
     IN /\ row.err = "" /\ row.bqid = Nil /\ row.type = "load"
        /\ imports[t] = ImpNone /\ IsImport(t)
        /\ tables' = [tables EXCEPT ![t].running = TRUE]
        /\ queue' = Append(queue, [table |-> t, job |-> Item(l).id, row |-> row,
                                   trow |-> tables'[t],
                                   from |-> rows[t].last, full |-> FALSE])
  /\ SetLoop(l, [l EXCEPT !.pc = "setq"])
  /\ ev' = Event("enqueue", l.run, Item(l).id)
  /\ UNCHANGED <<cfg, rows, ticker, aside, calls, runs, jobs, bq, monitors, imports, tasks, waits, used, lim>>

\* queueImport after its send: setImportStatus(ImpQueued)
ItemSetQueued(l) ==
  /\ l.pc = "setq"
  /\ imports' = [imports EXCEPT ![Item(l).row.table] = ImpQueued]
  /\ SetLoop(l, Advance(l))
  /\ ev' = Event("set_queued", l.run, Item(l).id)
  /\ UNCHANGED <<cfg, rows, ticker, aside, calls, runs, jobs, tables, bq, monitors, queue, tasks, waits,
                 used, lim>>

\* a ready load job of an external table with no wait: startExternalWait up
\* to the return of its hasExternalWait
ItemExternalCheck(l) ==
  /\ l.pc = "items"
  /\ LET row == Item(l).row
         t == row.table
     IN /\ row.err = "" /\ row.bqid = Nil /\ row.type = "load"
        /\ imports[t] = ImpNone /\ ~IsImport(t) /\ IsExternal(t) /\ ~waits[t].on
  /\ SetLoop(l, [l EXCEPT !.pc = "xwait"])
  /\ ev' = Event("external_check", l.run, Item(l).id)
  /\ UNCHANGED <<cfg, rows, ticker, aside, calls, runs, jobs, tables, bq, monitors, imports, queue,
                 tasks, waits, used, lim>>

\* startExternalWait after its check: setRunning, then the entry is written
\* and its timeout goroutine started
ItemExternalWait(l) ==
  /\ l.pc = "xwait"
  /\ LET t == Item(l).row.table
     IN /\ tables' = [tables EXCEPT ![t].running = TRUE]
        /\ waits' = [waits EXCEPT ![t] = Registered(@, Item(l).id)]
  /\ SetLoop(l, Advance(l))
  /\ ev' = Event("external_wait", l.run, Item(l).id)
  /\ UNCHANGED <<cfg, rows, ticker, aside, calls, runs, jobs, bq, monitors, imports, queue, tasks, used, lim>>

\* a ready query (or extract) job: the table is marked running with its error
\* cleared, then submitJob calls StartJob.  A failure is stored on the table
\* and returned by processCycle, which fails the run
ItemSubmit(l, out) ==
  /\ l.pc = "items"
  /\ LET row == Item(l).row
         t == row.table
         j == Item(l).id
     IN /\ row.err = "" /\ row.bqid = Nil /\ row.type # "load"
        /\ Mints(out) => Len(bq) < lim.bq
        /\ MayFail(out # "ok")
        /\ bq' = StartJob(j, "cycle", out)
        /\ CASE out = "ok" ->
                  /\ tables' = [tables EXCEPT ![t] = [running |-> TRUE, error |-> ""]]
                  /\ SetLoop(l, [l EXCEPT !.pc = "write", !.minted = Len(bq')])
                  /\ ev' = Event("start_job", l.run, j)
                  /\ UNCHANGED <<runs, monitors>>
             [] out = "temp_ok" ->
                  /\ tables' = [tables EXCEPT ![t] = [running |-> TRUE, error |-> ""]]
                  /\ monitors' = monitors \cup {NewMonitor(j, row)}
                  /\ SetLoop(l, Advance(l))
                  /\ ev' = Event("start_job_retried", l.run, j)
                  /\ UNCHANGED runs
             [] OTHER ->
                  /\ tables' = [tables EXCEPT ![t] = [running |-> FALSE, error |-> "submit"]]
                  /\ FailRun(l, [kind |-> "submit", of |-> ""])
                  /\ ev' = Event("submit_failed", l.run, j)
                  /\ UNCHANGED monitors
  /\ UNCHANGED <<cfg, rows, ticker, aside, calls, jobs, imports, queue, tasks, waits, lim>>

\* submitJob's UpdateBQJob, then go monitorJob
ItemWrite(l) ==
  /\ l.pc = "write"
  /\ RecordSubmit(Item(l).id, Item(l).row, l.minted)
  /\ monitors' = monitors \cup {NewMonitor(Item(l).id, jobs'[Item(l).id])}
  /\ SetLoop(l, Advance(l))
  /\ ev' = Event("submitted", l.run, Item(l).id)
  /\ UNCHANGED <<cfg, rows, ticker, aside, calls, runs, tables, imports, queue, tasks, waits, used, lim>>

\* -------------------------------------------------------- the job monitor
\* pause() without its cap
pauseUncapped(b, r) ==
  (b * backoffGrowthFactor * (400 - backoffGrowthDamper * r)) \div 4000

\* pause(b): b * 1.8, less up to a quarter of that, capped; whole ms.  r is
\* the value of rand.Float64(), in quarters
pause(b, r) ==
  Min((b * backoffGrowthFactor * (400 - backoffGrowthDamper * r)) \div 4000,
      maxBackoff)

\* the warehouse finishes a job: with no error, or with an error that
\* carries the Retrying marker, the schema-mismatch marker, or neither
BQFinish(b, res) ==
  /\ b \in DOMAIN bq
  /\ bq[b].result = "running"
  /\ MayFail(res # "ok")
  /\ bq' = [bq EXCEPT ![b].result = res]
  /\ rows' = LET t == jobs[bq[b].job].table
             IN IF res = "ok" /\ jobs[bq[b].job].type = "load" /\ IsImport(t)
                  THEN [rows EXCEPT ![t] = Loaded(@)]
                  ELSE rows
  /\ ev' = Event("bq_finish", Nil, bq[b].job)
  /\ UNCHANGED <<cfg, ticker, aside, calls, runs, jobs, tables, loops, monitors, imports, queue,
                 tasks, waits, lim>>

SetMonitor(m, m2) == monitors' = (monitors \ {m}) \cup {m2}

\* waitForJob: pause, then GetJob fails (always so for an empty id)
PollError(m, r) ==
  /\ m.pc = "wait"
  /\ Spend("poll")
  /\ SetMonitor(m, [m EXCEPT !.backoff = pause(m.backoff, r)])
  /\ ev' = Event("poll_error", Nil, m.job)
  /\ UNCHANGED <<cfg, rows, ticker, aside, calls, runs, jobs, tables, bq, loops, imports, queue, tasks,
                 waits, lim>>

\* waitForJob: pause, then GetJob returns a job with no end-time
PollRunning(m, r) ==
  /\ m.pc = "wait"
  /\ m.row.bqid # Nil
  /\ bq[m.row.bqid].result = "running"
  /\ Spend("poll")
  /\ SetMonitor(m, [m EXCEPT !.backoff = pause(m.backoff, r),
                             !.row = [@ EXCEPT !.state = "RUNNING", !.err = ""]])
  /\ ev' = Event("poll_running", Nil, m.job)
  /\ UNCHANGED <<cfg, rows, ticker, aside, calls, runs, jobs, tables, bq, loops, imports, queue, tasks,
                 waits, lim>>

ErrorOf(res) == IF res = "ok" THEN "" ELSE res

\* the row updateJobWithBQData makes of a finished warehouse job
Fetched(row) ==
  [row EXCEPT !.state = "DONE", !.ended = TRUE,
              !.err = ErrorOf(bq[row.bqid].result)]

\* resubmit() writing the row as fetched
KeepsStatus(row) == row

\* the row resubmit() writes before it sleeps: status and end-time cleared
Cleared(row) == [row EXCEPT !.state = "", !.err = "", !.ended = FALSE]

\* waitForJob returns a finished job whose error has the Retrying marker;
\* monitorJob calls resubmit(), which clears the row in the catalog and sleeps
PollRetry(m) ==
  /\ m.pc = "wait"
  /\ m.row.bqid # Nil
  /\ bq[m.row.bqid].result = "retry"
  /\ jobs' = [jobs EXCEPT ![m.job] = Cleared(Fetched(m.row))]
  /\ SetMonitor(m, [m EXCEPT !.pc = "resub", !.backoff = 0,
                             !.row = Cleared(Fetched(m.row))])
  /\ ev' = Event("retry_clear", Nil, m.job)
  /\ UNCHANGED <<cfg, rows, ticker, aside, calls, runs, tables, bq, loops, imports, queue, tasks, waits,
                 used, lim>>

\* waitForJob returns a finished job without the marker; processJobDone up to
\* its UpdateBQJob
PollDone(m) ==
  /\ m.pc = "wait"
  /\ m.row.bqid # Nil
  /\ bq[m.row.bqid].result \notin {"running", "retry"}
  /\ jobs' = [jobs EXCEPT ![m.job] = Fetched(m.row)]
  /\ SetMonitor(m, [m EXCEPT !.pc = "saved", !.backoff = 0,
                             !.row = Fetched(m.row)])
  /\ ev' = Event("job_saved", Nil, m.job)
  /\ UNCHANGED <<cfg, rows, ticker, aside, calls, runs, tables, bq, loops, imports, queue, tasks, waits,
                 used, lim>>

\* resubmit() after its sleep: submitJob calls StartJob; when submitJob
\* returns (nil or an error) monitorJob returns
Resubmit(m, out) ==
  /\ m.pc = "resub"
  /\ Mints(out) => Len(bq) < lim.bq
  /\ MayFail(out # "ok")
  /\ bq' = StartJob(m.job, "retry", out)
  /\ IF out = "ok"
       THEN SetMonitor(m, [m EXCEPT !.pc = "rwrite", !.minted = Len(bq')])
       ELSE monitors' = monitors \ {m}
  /\ ev' = Event(IF out = "ok" THEN "retry_start" ELSE "retry_return", Nil, m.job)
  /\ UNCHANGED <<cfg, rows, ticker, aside, calls, runs, jobs, tables, loops, imports, queue, tasks, waits,
                 lim>>

\* submitJob's UpdateBQJob in resubmit(); monitorJob then returns
ResubmitWrite(m) ==
  /\ m.pc = "rwrite"
  /\ RecordSubmit(m.job, m.row, m.minted)
  /\ monitors' = monitors \ {m}
  /\ ev' = Event("retry_written", Nil, m.job)
  /\ UNCHANGED <<cfg, rows, ticker, aside, calls, runs, tables, loops, imports, queue, tasks, waits,
                 used, lim>>

Reimports(m) ==
  /\ m.row.type = "load" /\ m.row.err = "schema"
  /\ tables[m.row.table].error = "" /\ m.row.run # Nil

\* processJobDone, schema mismatch of a run's load job: reimport().
\* ReimportTable inserts a new load job in the run and queues the import,
\* unless the table is not an import table; reimport() then stores the error
JobDoneReimport(m) ==
  /\ m.pc = "saved"
  /\ Reimports(m)
  /\ LET t == m.row.table IN
     IF IsImport(t)
       THEN /\ jobs' = Append(jobs, NewJob(t, m.row.run, {}, "load"))
            /\ tables' = [tables EXCEPT ![t] = [running |-> FALSE, error |-> "schema"]]
            /\ queue' = Append(queue, [table |-> t, job |-> Len(jobs'),
                                       row |-> jobs'[Len(jobs')],
                                       trow |-> tables'[t],
                                       from |-> 0, full |-> TRUE])
            /\ imports' = [imports EXCEPT ![t] = ImpQueued]
       ELSE /\ imports' = [imports EXCEPT ![t] = ImpNone]
            /\ UNCHANGED <<jobs, tables, queue>>
  /\ monitors' = monitors \ {m}
  /\ ev' = Event("reimport", m.row.run, m.job)
  /\ UNCHANGED <<cfg, rows, ticker, aside, calls, runs, bq, loops, tasks, waits, used, lim>>

\* a setError that stores the error and leaves Running alone
setErrorOnly(t, e) == [tables EXCEPT ![t].error = e]

\* Table.setError on the table as the catalog has it: Running becomes false,
\* Error the error's text, and the table is saved
setError(t, e) == [tables EXCEPT ![t] = [running |-> FALSE, error |-> e]]

\* processJobDone, any other error: setError stores it on the table
JobDoneError(m) ==
  /\ m.pc = "saved"
  /\ m.row.err # "" /\ ~Reimports(m)
  /\ imports' = [imports EXCEPT ![m.row.table] = ImpNone]
  /\ tables' = setError(m.row.table, m.row.err)
  /\ monitors' = monitors \ {m}
  /\ ev' = Event("job_error", m.row.run, m.job)
  /\ UNCHANGED <<cfg, rows, ticker, aside, calls, runs, jobs, bq, loops, queue, tasks, waits, used, lim>>

\* processJobDone, no error: a schema error left by a reimport is cleared,
\* the table is marked not running
JobDoneOk(m) ==
  /\ m.pc = "saved"
  /\ m.row.err = ""
  /\ imports' = [imports EXCEPT ![m.row.table] = ImpNone]
  /\ tables' = [tables EXCEPT ![m.row.table] =
                  [running |-> FALSE,
                   error |-> IF @.error = "schema" THEN "" ELSE @.error]]
  /\ monitors' = monitors \ {m}
  /\ ev' = Event("job_done", m.row.run, m.job)
  /\ UNCHANGED <<cfg, rows, ticker, aside, calls, runs, jobs, bq, loops, queue, tasks, waits, used, lim>>

\* ---------------------------------------------------------- import workers
\* importJob.markError: the status and the table's error, from the task's
\* copy of the table
markError(t, e) ==
  /\ imports' = [imports EXCEPT ![t] = ImpError]
  /\ tables' = [tables EXCEPT ![t] = [running |-> FALSE, error |-> e]]

\* what runImport comes to: the rows reach the object store ("ok"), a step
\* fails and is reported with markError ("fail"), or the table's query is not
\* the JSON of a primitive select and runImport returns the error of
\* json.Unmarshal as it is ("badquery")
ExtractOutcomes == {"ok", "fail", "badquery"}

\* a worker receives a task; runImport
ImportExtract(out) ==
  /\ queue # <<>>
  /\ Cardinality(tasks) < WORKERS
  /\ MayFail(out # "ok")
  /\ LET k == Head(queue)
         t == k.table
     IN /\ queue' = Tail(queue)
        /\ rows' = IF out = "ok" THEN [rows EXCEPT ![t] = Extracted(@, k)]
                   ELSE rows
        /\ CASE out = "ok" ->
                  /\ imports' = [imports EXCEPT ![t] = ImpDone]
                  /\ tables' = [tables EXCEPT ![t] =
                                  [running |-> TRUE, error |-> k.trow.error]]
                  /\ tasks' = tasks \cup {[k EXCEPT !.trow = tables'[t]] @@
                                          [pc |-> "load", minted |-> Nil]}
             [] out = "badquery" ->
                  /\ imports' = [imports EXCEPT ![t] = ImpRunning]
                  /\ tables' = [tables EXCEPT ![t] =
                                  [running |-> TRUE, error |-> k.trow.error]]
                  /\ UNCHANGED tasks
             [] OTHER ->
                  /\ markError(t, "import")
                  /\ UNCHANGED tasks
        /\ ev' = Event(IF out = "ok" THEN "import_done" ELSE "import_failed",
                       k.row.run, k.job)
  /\ UNCHANGED <<cfg, ticker, aside, calls, runs, jobs, bq, loops, monitors, waits, lim>>

\* runLoad without a successful import behind it
ImportLoadRefused(k) ==
  /\ k.pc = "load"
  /\ imports[k.table] # ImpDone
  /\ markError(k.table, "import")
  /\ tasks' = tasks \ {k}
  /\ ev' = Event("load_refused", k.row.run, k.job)
  /\ UNCHANGED <<cfg, rows, ticker, aside, calls, runs, jobs, bq, loops, monitors, queue, waits, used, lim>>

\* runLoad for a task a user queued: InsertBQJob of a load job of no run
ImportInsertJob(k) ==
  /\ k.pc = "load" /\ k.job = Nil
  /\ imports[k.table] = ImpDone
  /\ jobs' = Append(jobs, k.row)
  /\ tasks' = (tasks \ {k}) \cup {[k EXCEPT !.job = Len(jobs')]}
  /\ ev' = Event("load_insert", Nil, Len(jobs'))
  /\ UNCHANGED <<cfg, rows, ticker, aside, calls, runs, tables, bq, loops, monitors, imports, queue,
                 waits, used, lim>>

\* runLoad: UpdateBQJob with the import's span and counts, then submitJob
\* calls StartJob
ImportLoad(k, out) ==
  /\ k.pc = "load" /\ k.job # Nil
  /\ imports[k.table] = ImpDone
  /\ Mints(out) => Len(bq) < lim.bq
  /\ jobs' = [jobs EXCEPT ![k.job] = k.row]
  /\ MayFail(out # "ok")
  /\ bq' = StartJob(k.job, "import", out)
  /\ CASE out = "ok" ->
            /\ tasks' = (tasks \ {k}) \cup {[k EXCEPT !.pc = "lwrite", !.minted = Len(bq')]}
            /\ UNCHANGED <<monitors, imports, tables>>
       [] out = "temp_ok" ->
            /\ tasks' = tasks \ {k}
            /\ monitors' = monitors \cup {NewMonitor(k.job, k.row)}
            /\ UNCHANGED <<imports, tables>>
       [] OTHER ->
            /\ tasks' = tasks \ {k}
            /\ markError(k.table, "submit")
            /\ UNCHANGED monitors
  /\ ev' = Event("load_start", k.row.run, k.job)
  /\ UNCHANGED <<cfg, rows, ticker, aside, calls, runs, loops, queue, waits, lim>>

\* submitJob's UpdateBQJob in runLoad, then go monitorJob
ImportLoadWrite(k) ==
  /\ k.pc = "lwrite"
  /\ RecordSubmit(k.job, k.row, k.minted)
  /\ monitors' = monitors \cup {NewMonitor(k.job, jobs'[k.job])}
  /\ tasks' = tasks \ {k}
  /\ ev' = Event("load_submitted", k.row.run, k.job)
  /\ UNCHANGED <<cfg, rows, ticker, aside, calls, runs, tables, loops, imports, queue, waits, used, lim>>

\* ---------------------------------------------------------- external waits
\* the timeout goroutine of startExternalWait: the deadline passes
ExternalTimeout(t) ==
  /\ waits[t].timer
  /\ Spend("fault")
  /\ waits' = [waits EXCEPT ![t].timer = FALSE]
  /\ tables' = [tables EXCEPT ![t] = [running |-> FALSE, error |-> "timeout"]]
  /\ ev' = Event("external_timeout", Nil, waits[t].job)
  /\ UNCHANGED <<cfg, rows, ticker, aside, calls, runs, jobs, bq, loops, monitors, imports, queue, tasks,
                 lim>>

\* the timeout goroutine of an entry that was overwritten: its deadline passes
ExternalOrphanTimeout(t) ==
  /\ waits[t].orphans > 0
  /\ Spend("fault")
  /\ waits' = [waits EXCEPT ![t].orphans = @ - 1]
  /\ tables' = [tables EXCEPT ![t] = [running |-> FALSE, error |-> "timeout"]]
  /\ ev' = Event("external_timeout", Nil, Nil)
  /\ UNCHANGED <<cfg, rows, ticker, aside, calls, runs, jobs, bq, loops, monitors, imports, queue,
                 tasks, lim>>

\* tableLoadExternalHandler for a table with a registered wait: the table's
\* error is cleared; Table.ExternalLoad cancels the wait and takes the entry's
\* job, or inserts a load job of no run when the entry has none; the job gets
\* the uploaded file and is submitted and monitored
ExternalLoad(t, out) ==
  /\ waits[t].on
  /\ Mints(out) => Len(bq) < lim.bq
  /\ MayFail(out # "ok")
  /\ LET fresh == waits[t].job = Nil
         j == IF fresh THEN Len(jobs) + 1 ELSE waits[t].job
         base == IF fresh THEN Append(jobs, NewJob(t, Nil, {}, "load")) ELSE jobs
         row == base[j]
         minted(attempt) ==
           IF fresh THEN MintedNew(j, "external", attempt)
           ELSE Minted(j, "external", attempt, TRUE)
     IN /\ waits' = [waits EXCEPT ![t] = [NoWait EXCEPT !.orphans = waits[t].orphans]]
        /\ tables' = [tables EXCEPT ![t].error = ""]
        /\ CASE out = "ok" ->
                  /\ bq' = Append(bq, [minted(1) EXCEPT !.written = TRUE])
                  /\ jobs' = [base EXCEPT ![j] = Submitted(row, Len(bq'))]
                  /\ monitors' = monitors \cup {NewMonitor(j, jobs'[j])}
             [] out = "temp_ok" ->
                  /\ bq' = Append(bq, minted(2))
                  /\ jobs' = base
                  /\ monitors' = monitors \cup {NewMonitor(j, row)}
             [] OTHER ->
                  /\ jobs' = base
                  /\ UNCHANGED <<bq, monitors>>
        /\ ev' = Event("external_load", row.run, j)
  /\ UNCHANGED <<cfg, rows, ticker, aside, calls, runs, loops, imports, queue, tasks, lim>>

\* -------------------------------------------------------- requests of users
\* tableRunHandler for an external table: RunTable, runExternalTable,
\* startExternalWait(m, nil) up to the return of its hasExternalWait, which
\* refuses the call when the table has an entry
RunExternalCheck(t) ==
  /\ IsExternal(t)
  /\ Spend("run")
  /\ calls' = IF waits[t].on THEN calls
              ELSE calls \cup {[op |-> "external", table |-> t]}
  /\ ev' = Event(IF waits[t].on THEN "run_refused" ELSE "run_check", Nil, Nil)
  /\ UNCHANGED <<cfg, rows, ticker, aside, runs, jobs, tables, bq, loops, monitors, imports, queue,
                 tasks, waits, lim>>

\* tableRunHandler for a summary table: RunTable, runBQTable.  A table that is
\* running is refused; otherwise a query job of no run is inserted and
\* submitted, the table is marked running and the job monitored, or the
\* failure of StartJob is stored on the table
RunQuery(t, out) ==
  /\ ~IsImport(t) /\ ~IsExternal(t)
  /\ Spend("run")
  /\ IF tables[t].running
       THEN /\ ev' = Event("run_refused", Nil, Nil)
            /\ UNCHANGED <<jobs, bq, tables, monitors>>
       ELSE LET j == Len(jobs) + 1
                row == NewJob(t, Nil, {}, "query")
            IN /\ Mints(out) => Len(bq) < lim.bq
               /\ ev' = Event("run_query", Nil, j)
               /\ CASE out = "ok" ->
                         /\ bq' = Append(bq, [MintedNew(j, "user", 1)
                                                EXCEPT !.written = TRUE])
                         /\ jobs' = Append(jobs, Submitted(row, Len(bq')))
                         /\ tables' = [tables EXCEPT ![t].running = TRUE]
                         /\ monitors' = monitors \cup {NewMonitor(j, jobs'[j])}
                    [] out = "temp_ok" ->
                         /\ bq' = Append(bq, MintedNew(j, "user", 2))
                         /\ jobs' = Append(jobs, row)
                         /\ tables' = [tables EXCEPT ![t].running = TRUE]
                         /\ monitors' = monitors \cup {NewMonitor(j, row)}
                    [] OTHER ->
                         /\ jobs' = Append(jobs, row)
                         /\ tables' = setError(t, "submit")
                         /\ UNCHANGED <<bq, monitors>>
  /\ UNCHANGED <<cfg, rows, ticker, aside, runs, loops, imports, queue, tasks, waits, calls, lim>>

\* tableRunHandler for an import table: RunTable, runImportTable,
\* queueImport(t, userId, nil) up to the return of its GetImportStatus, which
\* refuses the call unless the status is ImpNone
RunImportCheck(t) ==
  /\ IsImport(t)
  /\ Spend("run")
  /\ calls' = IF imports[t] # ImpNone THEN calls
              ELSE calls \cup {[op |-> "import", table |-> t]}
  /\ ev' = Event(IF imports[t] # ImpNone THEN "run_refused" ELSE "run_check",
                 Nil, Nil)
  /\ UNCHANGED <<cfg, rows, ticker, aside, runs, jobs, tables, bq, loops, monitors, imports, queue,
                 tasks, waits, lim>>

\* queueImport(t, userId, nil) after its check: the task, which has no job
\* yet, is sent on importQueue and the status set to ImpQueued
RunImportEnqueue(c) ==
  /\ c.op = "import"
  /\ queue' = Append(queue, [table |-> c.table, job |-> Nil,
                             row |-> NewJob(c.table, Nil, {}, "load"),
                             trow |-> tables[c.table],
                             from |-> rows[c.table].last, full |-> FALSE])
  /\ imports' = [imports EXCEPT ![c.table] = ImpQueued]
  /\ calls' = calls \ {c}
  /\ ev' = Event("run_enqueue", Nil, Nil)
  /\ UNCHANGED <<cfg, rows, ticker, aside, runs, jobs, tables, bq, loops, monitors, tasks, waits,
                 used, lim>>

\* startExternalWait(m, nil) after its check
RunExternalWait(c) ==
  /\ c.op = "external"
  /\ tables' = [tables EXCEPT ![c.table].running = TRUE]
  /\ waits' = [waits EXCEPT ![c.table] = Registered(@, Nil)]
  /\ calls' = calls \ {c}
  /\ ev' = Event("run_external_wait", Nil, Nil)
  /\ UNCHANGED <<cfg, rows, ticker, aside, runs, jobs, bq, loops, monitors, imports, queue, tasks,
                 used, lim>>

\* ------------------------------------------------------- resume and restart
\* the run has its end-time and an error
Failed(r) == runs[r].ended /\ runs[r].error # NoError

\* runResumeGetHandler: SelectRun, Run.Resume.  The handler takes any run; a
\* scenario of kind "resume_failed" has its users resume failed runs only
Resume(r) ==
  /\ r \in RunIds
  /\ \/ "resume" \in lim.kinds
     \/ "resume_failed" \in lim.kinds /\ Failed(r)
  /\ used.inputs < lim.inputs /\ used.resumes < lim.resumes
  /\ used' = [used EXCEPT !.inputs = @ + 1, !.resumes = @ + 1]
  /\ IF UpdateRunOk(r, FALSE)
       THEN /\ runs' = UpdateRun(r, FALSE, NoError)
            /\ loops' = loops \cup {NewLoop(r, TRUE)}
            /\ ev' = Event(IF Failed(r) THEN "resume_failed" ELSE "resume",
                            r, Nil)
       ELSE /\ ev' = Event("resume_refused", r, Nil)
            /\ UNCHANGED <<runs, loops>>
  /\ UNCHANGED <<cfg, rows, ticker, aside, calls, jobs, tables, bq, monitors, imports, queue, tasks, waits, lim>>

\* the process is killed and started again: model.New runs
\* monitorUnfinishedJobs and monitorUnfinishedRuns on the catalog
KillRestart ==
  /\ "kill" \in lim.kinds
  /\ used.inputs < lim.inputs
  /\ used' = [used EXCEPT !.inputs = @ + 1, !.lives = @ + 1]
  /\ loops' = {[NewLoop(r, FALSE) EXCEPT !.id = r] : r \in UnfinishedRuns}
  /\ monitors' = {NewMonitor(j, jobs[j]) : j \in RunningBQJobs}
  /\ imports' = [t \in TableIds |-> ImpNone]
  /\ queue' = <<>>
  /\ tasks' = {}
  /\ waits' = [t \in TableIds |-> NoWait]
  /\ calls' = {}
  /\ ticker' = [ticker EXCEPT !.tk = [f \in ActiveFreqs |-> Computing],
                              !.ch = <<>>]
  /\ ev' = Event("restart", Nil, Nil)
  /\ UNCHANGED <<cfg, rows, aside, runs, jobs, tables, bq, lim>>

\* ---------------------------------------------------- scheduler.Condition
\* the fields of Condition by their JSON names, as json.Marshal orders the
\* keys of a map
Fields == <<"days", "hours", "months", "weekdays">>

\* a Condition: the set of keys of each map (every value stored is true),
\* and the fields whose map is not nil
ZeroCondition ==
  [made |-> {}, months |-> {}, weekdays |-> {}, days |-> {}, hours |-> {}]

\* the days from 1970-01-01 to the day d of month m of year y
DaysFromCivil(y, m, d) ==
  LET yy == IF m <= 2 THEN y - 1 ELSE y
      era == yy \div 400
      yoe == yy - era * 400
      mp == IF m > 2 THEN m - 3 ELSE m + 9
      doy == (153 * mp + 2) \div 5 + d - 1
      doe == yoe * 365 + yoe \div 4 - yoe \div 100 + doy
  IN era * 146097 + doe - 719468

\* a Weekday that counts from Monday
WeekdayFromMonday(t) == (DaysFromCivil(t.year, t.month, t.day) + 3) % 7

\* time.Time.Weekday: Sunday is 0; 1970-01-01 was a Thursday
Weekday(t) == (DaysFromCivil(t.year, t.month, t.day) + 4) % 7

\* a Satisfied that is content with one field that matches
SatisfiedAny(c, now) ==
  \/ c.months = {} /\ c.weekdays = {} /\ c.days = {} /\ c.hours = {}
  \/ now.month \in c.months
  \/ Weekday(now) \in c.weekdays
  \/ now.day \in c.days
  \/ now.hour \in c.hours

\* Condition.Satisfied
Satisfied(c, now) ==
  IF Cardinality(c.months) > 0 /\ now.month \notin c.months THEN FALSE
  ELSE IF Cardinality(c.weekdays) > 0 /\ Weekday(now) \notin c.weekdays
    THEN FALSE
  ELSE IF Cardinality(c.days) > 0 /\ now.day \notin c.days THEN FALSE
  ELSE IF Cardinality(c.hours) > 0 /\ now.hour \notin c.hours THEN FALSE
  ELSE TRUE

RECURSIVE Reversed(_)
Reversed(q) == IF q = <<>> THEN <<>> ELSE Append(Reversed(Tail(q)), Head(q))

\* a MarshalJSON that leaves the keys in descending order
MarshalJSONDescending(c) ==
  LET keys == SelectSeq(Fields, LAMBDA k : k \in c.made)
  IN [i \in DOMAIN keys |->
        [key |-> keys[i], arr |-> Reversed(SortedSeq(c[keys[i]]))]]

\* Condition.MarshalJSON: the JSON object as the list of its members, one
\* for each map that is not nil, the keys of the map sorted by sort.Ints
MarshalJSON(c) ==
  LET keys == SelectSeq(Fields, LAMBDA k : k \in c.made)
  IN [i \in DOMAIN keys |->
        [key |-> keys[i], arr |-> SortedSeq(c[keys[i]])]]

\* what json.Unmarshal leaves in a slice of aux: the array of the last
\* member with the key, nothing where there is none
Slice(data, k) ==
  LET is == {i \in DOMAIN data : data[i].key = k}
  IN IF is = {} THEN <<>>
     ELSE data[CHOOSE i \in is : \A o \in is : o <= i].arr

\* Condition.UnmarshalJSON: the four maps are made, then filled
UnmarshalJSON(data) ==
  [made |-> Range(Fields),
   months |-> Range(Slice(data, "months")),
   weekdays |-> Range(Slice(data, "weekdays")),
   days |-> Range(Slice(data, "days")),
   hours |-> Range(Slice(data, "hours"))]

\* --------------------------------------------------- callers of scheduler
\* a caller of Condition: the Condition it holds (c), the call it made last
\* (called), the JSON it passed or got (data), the Condition it marshalled
\* (src), and the moment it asked about (at) with the answer (sat)
NoMoment == [year |-> 1970, month |-> 1, day |-> 1, hour |-> 0]

NoCondition ==
  [pc |-> "none", c |-> ZeroCondition, called |-> "", data |-> <<>>,
   src |-> ZeroCondition, at |-> NoMoment, sat |-> FALSE]

\* the Condition of Test_MondaysAt9, a struct literal with two maps
MondaysAt9 ==
  [made |-> {"weekdays", "hours"}, months |-> {}, weekdays |-> {1},
   days |-> {}, hours |-> {9}]

\* the moments asked about: Mondays, a Sunday, a Wednesday
Moments ==
  {[year |-> 2017, month |-> 8, day |-> 28, hour |-> 9],
   [year |-> 2017, month |-> 8, day |-> 28, hour |-> 10],
   [year |-> 2017, month |-> 8, day |-> 21, hour |-> 9],
   [year |-> 2017, month |-> 8, day |-> 27, hour |-> 9],
   [year |-> 2017, month |-> 1, day |-> 30, hour |-> 12],
   [year |-> 2017, month |-> 2, day |-> 15, hour |-> 0]}

\* the arrays of the JSON documents passed: none, empty, one number, two
\* numbers out of order, one number twice
Arrays(a, b) == {<<>>, <<a>>, <<b, a>>, <<a, a>>}

\* the JSON documents passed: each key absent or with one of the arrays
Member(k, arrs) == {<<>>} \cup {<<[key |-> k, arr |-> a]>> : a \in arrs}

Documents ==
  {d \o h \o m \o w :
     d \in Member("days", Arrays(21, 28)),
     h \in Member("hours", Arrays(9, 12)),
     m \in Member("months", Arrays(1, 8)),
     w \in Member("weekdays", Arrays(1, 3))}

\* json.Unmarshal(doc, &cond)
CondUnmarshal(doc) ==
  /\ condition.pc = "held"
  /\ condition' = [condition EXCEPT !.c = UnmarshalJSON(doc),
                                    !.called = "unmarshal", !.data = doc,
                                    !.src = ZeroCondition,
                                    !.at = NoMoment, !.sat = FALSE]
  /\ UNCHANGED <<maestro, graph, drain, sql, mu>>

\* json.Marshal(cond)
CondMarshal ==
  /\ condition.pc = "held"
  /\ condition' = [condition EXCEPT !.called = "marshal",
                                    !.data = MarshalJSON(condition.c),
                                    !.src = condition.c,
                                    !.at = NoMoment, !.sat = FALSE]
  /\ UNCHANGED <<maestro, graph, drain, sql, mu>>

\* json.Unmarshal of what json.Marshal returned
CondRoundTrip ==
  /\ condition.pc = "held"
  /\ condition.called = "marshal"
  /\ condition' = [condition EXCEPT !.c = UnmarshalJSON(condition.data),
                                    !.called = "roundtrip"]
  /\ UNCHANGED <<maestro, graph, drain, sql, mu>>

\* cond.Satisfied(now)
CondSatisfied(now) ==
  /\ condition.pc = "held"
  /\ condition' = [condition EXCEPT !.called = "satisfied", !.at = now,
                                    !.sat = Satisfied(condition.c, now),
                                    !.data = <<>>, !.src = ZeroCondition]
  /\ UNCHANGED <<maestro, graph, drain, sql, mu>>

\* a caller of Graph: where it is (pc), the calls it made to build the graph
\* (ops) and whether they were Relate calls only, the call it made last
\* (called), for RemoveItem with its argument (arg) and the children the
\* node had (had), and what the call returned (ready, scores, err)
NoDrain ==
  [pc |-> "none", ops |-> 0, relateOnly |-> TRUE, called |-> "",
   arg |-> -1, had |-> {}, ready |-> <<>>, scores |-> <<>>, err |-> FALSE]

Names == 1..MaxNames

\* g.Relate(parent, child), parent -1 for nil
GraphRelate(p, c) ==
  /\ drain.pc = "build"
  /\ drain.ops < MaxGraphOps
  /\ graph' = Relate(graph, p, c)
  /\ drain' = [drain EXCEPT !.ops = @ + 1, !.called = "relate",
                            !.arg = -1, !.had = {},
                            !.ready = <<>>, !.scores = <<>>, !.err = FALSE]
  /\ UNCHANGED <<maestro, condition, sql, mu>>

\* g.RemoveItem(name)
GraphRemoveItem(n) ==
  /\ drain.pc = "build"
  /\ drain.ops < MaxGraphOps
  /\ graph' = RemoveItem(graph, n).g
  /\ drain' = [drain EXCEPT !.ops = @ + 1, !.called = "remove",
                            !.relateOnly = FALSE,
                            !.arg = n,
                            !.had = IF n \in DOMAIN graph
                                      THEN graph[n].children ELSE {},
                            !.ready = <<>>, !.scores = <<>>,
                            !.err = RemoveItem(graph, n).err]
  /\ UNCHANGED <<maestro, condition, sql, mu>>

\* what ReadyItems, and the Scores it calls, return, as the caller keeps it
Returned(d, g, call) ==
  [d EXCEPT !.called = call, !.arg = -1, !.had = {},
            !.ready = ReadyItems(g).items,
            !.scores = Scores(childSentinel(g)),
            !.err = ReadyItems(g).err]

\* g.ReadyItems(): the sentinel stays in the graph
GraphReadyItems ==
  /\ drain.pc = "build"
  /\ drain.ops < MaxGraphOps
  /\ graph' = childSentinel(graph)
  /\ drain' = [Returned(drain, graph, "ready") EXCEPT !.ops = @ + 1,
                                                      !.relateOnly = FALSE]
  /\ UNCHANGED <<maestro, condition, sql, mu>>

\* the loop of a run and of Test_graph_cycle: ReadyItems, ...
DrainStart ==
  /\ drain.pc = "build"
  /\ graph' = childSentinel(graph)
  /\ drain' = [Returned(drain, graph, "ready") EXCEPT !.pc = "drain"]
  /\ UNCHANGED <<maestro, condition, sql, mu>>

\* ... RemoveItem on every item returned, ReadyItems again ...
DrainStep ==
  /\ drain.pc = "drain"
  /\ Len(drain.ready) > 0 /\ ~drain.err
  /\ LET g == RemoveItems(graph, drain.ready)
     IN /\ graph' = childSentinel(g)
        /\ drain' = Returned(drain, g, "ready")
  /\ UNCHANGED <<maestro, condition, sql, mu>>

\* ... until nothing is returned or an error is
DrainEnd ==
  /\ drain.pc = "drain"
  /\ ~(Len(drain.ready) > 0 /\ ~drain.err)
  /\ drain' = [drain EXCEPT !.pc = "done"]
  /\ UNCHANGED <<maestro, condition, graph, sql, mu>>

\* ------------------------------------------------------- tablesInQuery
\* A query text, after removeSQLComments, as the sequence of its pieces: a
\* piece is one character of tokenRe's class, or a maximal stretch of other
\* characters (a word).
Delims == {" ", "("}

\* the words of the texts, in the order of sort.Strings (bytes ascending)
Words == <<"FROM", "T1", "from", "join", "select", "t1", "t2",
           "table_date_range">>

WordSet == {Words[i] : i \in 1..Len(Words)}

\* strings.ToLower
ToLower(tok) ==
  CASE tok = "FROM" -> "from"
    [] tok = "T1" -> "t1"
    [] OTHER -> tok

\* the order of sort.Strings: the empty string first, then Words
Rank(tok) ==
  IF tok = "" THEN 0 ELSE CHOOSE i \in 1..Len(Words) : Words[i] = tok

RECURSIVE SplitFrom(_, _, _, _, _)
SplitFrom(q, i, cur, inSep, out) ==
  IF i > Len(q) THEN Append(out, cur)
  ELSE IF q[i] \in Delims
    THEN IF inSep THEN SplitFrom(q, i + 1, cur, TRUE, out)
         ELSE SplitFrom(q, i + 1, "", TRUE, Append(out, cur))
    ELSE SplitFrom(q, i + 1, q[i], FALSE, out)

\* tokenRe.Split(query, -1): a run of separators is one separator, a text
\* that starts or ends with one has an empty first or last token
Split(q) == SplitFrom(q, 1, "", FALSE, <<>>)

RECURSIVE SortStrings(_)
SortStrings(set) ==
  IF set = {} THEN <<>>
  ELSE LET m == CHOOSE x \in set : \A y \in set : Rank(x) <= Rank(y)
       IN <<m>> \o SortStrings(set \ {m})

RECURSIVE scanTokens(_, _, _, _)
scanTokens(toks, i, getNext, set) ==
  IF i > Len(toks) THEN set
  ELSE LET tok == toks[i]
           ltok == ToLower(tok)
           taken == getNext /\ ltok # "" /\ ltok # "select"
                      /\ ltok # "table_date_range"
       IN scanTokens(toks, i + 1,
                     ltok \in {"from", "join", "table_date_range"},
                     IF taken THEN set \cup {tok} ELSE set)

\* the same scan comparing the token as written
RECURSIVE scanTokensAsWritten(_, _, _, _)
scanTokensAsWritten(toks, i, getNext, set) ==
  IF i > Len(toks) THEN set
  ELSE LET tok == toks[i]
           taken == getNext /\ tok # "" /\ tok # "select"
                      /\ tok # "table_date_range"
       IN scanTokensAsWritten(toks, i + 1,
                     tok \in {"from", "join", "table_date_range"},
                     IF taken THEN set \cup {tok} ELSE set)

tablesInQueryAsWritten(q) ==
  SortStrings(scanTokensAsWritten(Split(q), 1, FALSE, {}))

tablesInQuery(q) == SortStrings(scanTokens(Split(q), 1, FALSE, {}))

\* ---- a caller of tablesInQuery
NoQuery == [pc |-> "none", query |-> <<>>, result |-> <<>>]

\* the caller's text grows by one piece (two words never touch: they would be
\* one word) and is parsed
SqlParse(x) ==
  /\ sql.pc = "held"
  /\ Len(sql.query) < MaxQueryLen
  /\ x \in WordSet =>
       IF Len(sql.query) = 0 THEN TRUE
       ELSE sql.query[Len(sql.query)] \in Delims
  /\ LET q == Append(sql.query, x)
     IN sql' = [sql EXCEPT !.query = q, !.result = tablesInQuery(q)]
  /\ UNCHANGED <<maestro, graph, drain, condition, mu>>


\* ---------------------------------------------------------- the mutex m.x
\* The functions that touch m.imports and m.externalWaits, as the steps each
\* goroutine takes. A step is a record: op names what it does, want and else
\* belong to a test of the value last read (on another value the function
\* goes to step else), val is the status written.
MapOps == {"read_imports", "write_imports", "delete_imports",
           "read_waits", "write_waits", "delete_waits"}

\* catalog write, warehouse or object-store or Slack call, channel send, sleep
Blocking == {"catalog", "network", "send", "sleep"}

Do(op) == [op |-> op, want |-> "", else |-> 0, val |-> ""]
Write(status) == [Do("write_imports") EXCEPT !.val = status]
Test(want, else) == [Do("test") EXCEPT !.want = want, !.else = else]

GetImportStatus == <<Do("lock"), Do("read_imports"), Do("unlock")>>

setImportStatus(status) == <<Do("lock"), Write(status), Do("unlock")>>

DeleteImportStatus == <<Do("lock"), Do("delete_imports"), Do("unlock")>>

hasExternalWait == <<Do("lock"), Do("read_waits"), Do("unlock")>>

\* startExternalWait with the mutex taken before setRunning
startExternalWaitLockFirst ==
  hasExternalWait \o <<Test("no", 10), Do("lock"), Do("catalog"),
                       Do("write_waits"), Do("go"), Do("unlock")>>

\* hasExternalWait, setRunning, then the entry and the timeout goroutine
\* under the mutex
startExternalWait ==
  hasExternalWait \o <<Test("no", 10), Do("catalog"), Do("lock"),
                       Do("write_waits"), Do("go"), Do("unlock")>>

cancelExternalWait ==
  <<Do("lock"), Do("read_waits"), Test("yes", 6), Do("close"),
    Do("delete_waits"), Do("unlock")>>

queueImport ==
  GetImportStatus \o <<Test(ImpNone, 9), Do("send")>>
    \o setImportStatus(ImpQueued)

\* importJob.markError: the status, the Slack alert, Table.setError
markErrorSteps ==
  setImportStatus(ImpError) \o <<Do("network"), Do("catalog")>>

\* the goroutine startExternalWait starts: it waits, then Table.setError
waitTimeout == <<Do("sleep"), Do("catalog")>>

Programs ==
  [GetImportStatus |-> GetImportStatus,
   setImportStatus |-> setImportStatus(ImpRunning),
   DeleteImportStatus |-> DeleteImportStatus,
   hasExternalWait |-> hasExternalWait,
   startExternalWait |-> startExternalWait,
   cancelExternalWait |-> cancelExternalWait,
   queueImport |-> queueImport,
   markError |-> markErrorSteps,
   waitTimeout |-> waitTimeout]

Goroutines == 1..MaxGoroutines

NoThread == [fn |-> "", pc |-> 0, seen |-> ""]

\* holder: the goroutine that holds m.x (Nil: none); imp and wait: the entries
\* of one table in m.imports and m.externalWaits; timers: timeout goroutines
\* asked for and not started yet
NoMutex == [on |-> FALSE, holder |-> Nil, imp |-> ImpNone, wait |-> FALSE,
            timers |-> 0, th |-> [g \in Goroutines |-> NoThread],
            last |-> [g |-> Nil, op |-> "", held |-> FALSE]]

\* a goroutine that runs nothing calls one of the functions
MuCall(g, fn) ==
  /\ mu.on /\ mu.th[g].fn = ""
  /\ fn # "waitTimeout"
  /\ mu' = [mu EXCEPT !.th[g] = [fn |-> fn, pc |-> 1, seen |-> ""],
                      !.last = [g |-> g, op |-> "call", held |-> mu.holder = g]]
  /\ UNCHANGED <<maestro, graph, drain, condition, sql>>

\* the goroutine startExternalWait asked for starts
MuSpawn(g) ==
  /\ mu.on /\ mu.th[g].fn = "" /\ mu.timers > 0
  /\ mu' = [mu EXCEPT !.th[g] = [fn |-> "waitTimeout", pc |-> 1, seen |-> ""],
                      !.timers = @ - 1,
                      !.last = [g |-> g, op |-> "spawn", held |-> mu.holder = g]]
  /\ UNCHANGED <<maestro, graph, drain, condition, sql>>

\* a goroutine takes its next step; Lock waits for the mutex to be free
MuStep(g) ==
  /\ mu.on /\ mu.th[g].fn # ""
  /\ LET th == mu.th[g]
         prog == Programs[th.fn]
         s == prog[th.pc]
         seen == CASE s.op = "read_imports" -> mu.imp
                   [] s.op = "read_waits" -> IF mu.wait THEN "yes" ELSE "no"
                   [] OTHER -> th.seen
         to == IF s.op = "test" /\ th.seen # s.want THEN s.else
               ELSE th.pc + 1
         next == IF to > Len(prog) THEN NoThread
                 ELSE [th EXCEPT !.pc = to, !.seen = seen]
     IN /\ s.op = "lock" => mu.holder = Nil
        /\ mu' = [mu EXCEPT
             !.th[g] = next,
             !.holder = CASE s.op = "lock" -> g
                          [] s.op = "unlock" -> Nil
                          [] OTHER -> @,
             !.imp = CASE s.op = "write_imports" -> s.val
                       [] s.op = "delete_imports" -> ImpNone
                       [] OTHER -> @,
             !.wait = CASE s.op = "write_waits" -> TRUE
                        [] s.op = "delete_waits" -> FALSE
                        [] OTHER -> @,
             !.timers = IF s.op = "go" /\ @ < MaxGoroutines THEN @ + 1 ELSE @,
             !.last = [g |-> g, op |-> s.op, held |-> mu.holder = g]]
  /\ UNCHANGED <<maestro, graph, drain, condition, sql>>

\* --------------------------------------------------------------- scenarios
\* what the behaviours of a scenario may use
Limits(nr, ni, kinds, users, rands) ==
  [runs |-> nr, inputs |-> ni, resumes |-> ni, kinds |-> kinds,
   users |-> users, rands |-> rands, bq |-> MaxBQ]

\* an import table and its summary
ScImport ==
  [cfg |-> [kind |-> <<"import", "summary">>, par |-> <<{}, {1}>>,
            freq |-> <<1, 1>>, freqs |-> {1}],
   lim |-> Limits(MaxLoadRuns, MaxInputs, {"kill", "fault", "poll"}, {Nil}, {0})]

\* an external table and its summary
ScExternal ==
  [cfg |-> [kind |-> <<"external", "summary">>, par |-> <<{}, {1}>>,
            freq |-> <<1, 1>>, freqs |-> {1}],
   lim |-> Limits(MaxLoadRuns, MaxInputs, {"kill", "fault", "poll"}, {Nil}, {0})]

\* two summaries and a summary of both
ScSummary ==
  [cfg |-> [kind |-> <<"summary", "summary", "summary">>,
            par |-> <<{}, {}, {1, 2}>>, freq |-> <<1, 1, 1>>, freqs |-> {1}],
   lim |-> Limits(MaxRuns, MaxInputs, {"kill", "fault", "poll"}, {Nil}, {0})]

\* one summary whose monitor polls through GetJob errors and jobs that have
\* not finished
ScPoll ==
  [cfg |-> [kind |-> <<"summary">>, par |-> <<{}>>, freq |-> <<1>>,
            freqs |-> {1}],
   lim |-> Limits(1, MaxBackoffPolls, {"poll"}, {1}, {0, 1, 3})]

\* two frequencies, one with a summary and one with no table, run by the
\* ticker or by a user and resumed
ScFreqs ==
  [cfg |-> [kind |-> <<"summary">>, par |-> <<{}>>, freq |-> <<1>>,
            freqs |-> {1, 2}],
   lim |-> Limits(MaxRuns, MaxResumeInputs, {"resume", "fault"}, {Nil, 1}, {0})]

\* a summary whose runs fail and are resumed
ScResume ==
  [cfg |-> [kind |-> <<"summary">>, par |-> <<{}>>, freq |-> <<1>>,
            freqs |-> {1}],
   lim |-> Limits(MaxRuns, MaxInputs, {"resume", "fault"}, {Nil}, {0})]

\* a summary and its child, in one run that fails, is resumed once and fails
\* again
ScTolerate ==
  [cfg |-> [kind |-> <<"summary", "summary">>, par |-> <<{}, {1}>>,
            freq |-> <<1, 1>>, freqs |-> {1}],
   lim |-> [Limits(1, MaxTolerateInputs, {"resume_failed", "fault"}, {Nil}, {0})
              EXCEPT !.resumes = MaxTolerateResumes]]

\* the same with two summaries that run side by side
ScTolerateTwo ==
  [cfg |-> [kind |-> <<"summary", "summary">>, par |-> <<{}, {}>>,
            freq |-> <<1, 1>>, freqs |-> {1}],
   lim |-> [Limits(1, MaxTolerateInputs, {"resume_failed", "fault"}, {Nil}, {0})
              EXCEPT !.resumes = MaxTolerateResumes]]

\* an external table that its run and its users start
ScExternalRun ==
  [cfg |-> [kind |-> <<"external">>, par |-> <<{}>>, freq |-> <<1>>,
            freqs |-> {1}],
   lim |-> Limits(MaxLoadRuns, MaxInputs, {"run", "fault"}, {Nil}, {0})]

\* an import table that its run and its users start
ScImportRun ==
  [cfg |-> [kind |-> <<"import">>, par |-> <<{}>>, freq |-> <<1>>,
            freqs |-> {1}],
   lim |-> Limits(MaxLoadRuns, MaxInputs, {"run", "fault"}, {Nil}, {0})]

\* a summary table that its run and its users start
ScSummaryRun ==
  [cfg |-> [kind |-> <<"summary">>, par |-> <<{}>>, freq |-> <<1>>,
            freqs |-> {1}],
   lim |-> Limits(MaxLoadRuns, MaxInputs, {"run"}, {Nil}, {0})]

\* tables 1 and 2 have one name in two datasets; table 2 names itself,
\* table 1, table 3 (run on the second moment only), table 4 (of another
\* frequency), table 5 (deleted) and a table Maestro does not know
ScParents ==
  [cfg |-> [kind |-> <<"summary", "summary", "summary", "summary", "summary">>,
            par |-> <<{}, {1, 2, 3, 4, 5, 9}, {}, {}, {}>>,
            freq |-> <<1, 1, 1, 2, 1>>, freqs |-> {1, 2},
            name |-> <<1, 1, 3, 4, 5>>,
            cond |-> <<<<>>, <<>>, <<{3}, {2}>>, <<>>, <<>>>>,
            deleted |-> {5}],
   lim |-> Limits(MaxRuns, MaxResumeInputs, {"again"}, {Nil}, {0})]

\* an import table and an external table that are run on some moments, and a
\* summary of both
ScConditions ==
  [cfg |-> [kind |-> <<"import", "external", "summary">>,
            par |-> <<{}, {}, {1, 2}>>, freq |-> <<1, 1, 1>>, freqs |-> {1},
            cond |-> <<<<{2}>>, <<{1}, {3}>>, <<>>>>],
   lim |-> Limits(MaxRuns, MaxResumeInputs, {"again"}, {Nil}, {0})]

\* one active frequency of period 3 s and offset 1 s with a summary table;
\* runs are started by ticks only
ScTicker ==
  [cfg |-> [kind |-> <<"summary">>, par |-> <<{}>>, freq |-> <<1>>,
            freqs |-> {1}, period |-> <<3>>, offset |-> <<1>>],
   lim |-> Limits(MaxRuns, MaxResumeInputs, {"clock"}, {}, {0})]

\* the same with offset -2 s
ScTickerEarly ==
  [cfg |-> [kind |-> <<"summary">>, par |-> <<{}>>, freq |-> <<1>>,
            freqs |-> {1}, period |-> <<3>>, offset |-> <<-2>>],
   lim |-> Limits(MaxRuns, MaxResumeInputs, {"clock"}, {}, {0})]

Scenarios ==
  {ScTicker, ScTickerEarly, ScImport, ScExternal, ScSummary, ScFreqs, ScResume, ScPoll, ScTolerate,
   ScTolerateTwo, ScExternalRun, ScImportRun, ScSummaryRun, ScParents,
   ScConditions}

InitWith(c, limits) ==
  /\ cfg = c
  /\ runs = <<>>
  /\ jobs = <<>>
  /\ tables = [t \in DOMAIN c.kind |-> [running |-> FALSE, error |-> ""]]
  /\ bq = <<>>
  /\ loops = {}
  /\ monitors = {}
  /\ imports = [t \in DOMAIN c.kind |-> ImpNone]
  /\ queue = <<>>
  /\ tasks = {}
  /\ waits = [t \in DOMAIN c.kind |-> NoWait]
  /\ calls = {}
  /\ used = [inputs |-> 0, lives |-> 0, resumes |-> 0]
  /\ lim = limits
  /\ ev = Event("init", Nil, Nil)
  /\ ticker = [clock |-> 0, ch |-> <<>>,
               tk |-> IF "period" \in DOMAIN c
                        THEN [f \in DOMAIN c.period |-> Computing]
                        ELSE <<>>]
  /\ rows = [t \in DOMAIN c.kind |-> NoRows]

Init ==
  /\ \E sc \in Scenarios : InitWith(sc.cfg, sc.lim)
  /\ graph = NewGraph
  /\ drain = NoDrain
  /\ condition = NoCondition
  /\ sql = NoQuery
  /\ mu = NoMutex

Results == {"ok", "retry", "schema", "other"}

Next ==
  \/ \E f \in Freqs, u \in lim.users : Assemble(f, u)
  \/ \E f \in Freqs, u \in lim.users : AssembleFails(f, u)
  \/ \E r \in RunIds : AssembleAgain(r)
  \/ ClockTick
  \/ \E f \in ActiveFreqs : TickerCompute(f)
  \/ \E f \in ActiveFreqs : TickerNapEnd(f)
  \/ \E f \in ActiveFreqs : TickerSend(f)
  \/ ReceiveTick
  \/ \E l \in loops : LoopInit(l)
  \/ \E l \in loops : CycleLoad(l)
  \/ \E l \in loops : ItemFail(l)
  \/ \E l \in loops : ItemImportFail(l)
  \/ \E l \in loops : ItemSkip(l)
  \/ \E l \in loops : ItemEnqueue(l)
  \/ \E l \in loops : ItemSetQueued(l)
  \/ \E l \in loops : ItemExternalCheck(l)
  \/ \E l \in loops : ItemExternalWait(l)
  \/ \E l \in loops, out \in SubmitOutcomes : ItemSubmit(l, out)
  \/ \E l \in loops : ItemWrite(l)
  \/ \E b \in DOMAIN bq, res \in Results : BQFinish(b, res)
  \/ \E m \in monitors, r \in lim.rands : PollError(m, r)
  \/ \E m \in monitors, r \in lim.rands : PollRunning(m, r)
  \/ \E m \in monitors : PollDone(m)
  \/ \E m \in monitors : PollRetry(m)
  \/ \E m \in monitors, out \in SubmitOutcomes : Resubmit(m, out)
  \/ \E m \in monitors : ResubmitWrite(m)
  \/ \E m \in monitors : JobDoneReimport(m)
  \/ \E m \in monitors : JobDoneError(m)
  \/ \E m \in monitors : JobDoneOk(m)
  \/ \E out \in ExtractOutcomes : ImportExtract(out)
  \/ \E k \in tasks : ImportLoadRefused(k)
  \/ \E k \in tasks : ImportInsertJob(k)
  \/ \E k \in tasks, out \in SubmitOutcomes : ImportLoad(k, out)
  \/ \E k \in tasks : ImportLoadWrite(k)
  \/ \E t \in TableIds : ExternalTimeout(t)
  \/ \E t \in TableIds : ExternalOrphanTimeout(t)
  \/ \E t \in TableIds, out \in SubmitOutcomes : ExternalLoad(t, out)
  \/ \E t \in TableIds, out \in SubmitOutcomes : RunQuery(t, out)
  \/ \E t \in TableIds : RunExternalCheck(t)
  \/ \E c \in calls : RunExternalWait(c)
  \/ \E t \in TableIds : RunImportCheck(t)
  \/ \E c \in calls : RunImportEnqueue(c)
  \/ \E r \in RunIds : Resume(r)
  \/ KillRestart

Spec == Init /\ [][Next]_vars

\* a caller of scheduler.Graph alone, Maestro idle
Idle == Limits(0, 0, {}, {}, {})

GraphInit ==
  /\ InitWith(ScSummaryRun.cfg, Idle)
  /\ graph = NewGraph
  /\ drain = [NoDrain EXCEPT !.pc = "build"]
  /\ condition = NoCondition
  /\ sql = NoQuery
  /\ mu = NoMutex

GraphNext ==
  \/ \E p \in Names \cup {-1}, c \in Names : GraphRelate(p, c)
  \/ \E n \in Names \cup {csName} : GraphRemoveItem(n)
  \/ GraphReadyItems
  \/ DrainStart
  \/ DrainStep
  \/ DrainEnd

GraphSpec == GraphInit /\ [][GraphNext]_vars

\* a caller of scheduler.Condition alone, Maestro idle
CondInit ==
  /\ InitWith(ScSummaryRun.cfg, Idle)
  /\ graph = NewGraph
  /\ drain = NoDrain
  /\ \E c \in {ZeroCondition, MondaysAt9} :
       condition = [NoCondition EXCEPT !.pc = "held", !.c = c]
  /\ sql = NoQuery
  /\ mu = NoMutex

CondNext ==
  \/ \E doc \in Documents : CondUnmarshal(doc)
  \/ CondMarshal
  \/ CondRoundTrip
  \/ \E now \in Moments : CondSatisfied(now)

CondSpec == CondInit /\ [][CondNext]_vars

\* a caller of tablesInQuery alone, Maestro idle
SqlInit ==
  /\ InitWith(ScSummaryRun.cfg, Idle)
  /\ graph = NewGraph
  /\ drain = NoDrain
  /\ condition = NoCondition
  /\ sql = [NoQuery EXCEPT !.pc = "held", !.result = tablesInQuery(<<>>)]
  /\ mu = NoMutex

SqlNext == \E x \in WordSet \cup Delims : SqlParse(x)

SqlSpec == SqlInit /\ [][SqlNext]_vars

\* goroutines at the mutex alone, Maestro idle
MuInit ==
  /\ InitWith(ScSummaryRun.cfg, Idle)
  /\ graph = NewGraph
  /\ drain = NoDrain
  /\ condition = NoCondition
  /\ sql = NoQuery
  /\ mu = [NoMutex EXCEPT !.on = TRUE]

MuNext ==
  \/ \E g \in Goroutines, fn \in DOMAIN Programs : MuCall(g, fn)
  \/ \E g \in Goroutines : MuSpawn(g)
  \/ \E g \in Goroutines : MuStep(g)

MuSpec == MuInit /\ [][MuNext]_vars

\* one run of an external table and its summary, with one failure at most;
\* the goroutines of the process are scheduled fairly, every warehouse job
\* finishes, and every external wait is ended by an upload or by its timeout
ScLive ==
  [cfg |-> ScExternal.cfg,
   lim |-> Limits(1, MaxLiveInputs, {"fault"}, {Nil}, {0})]

LiveInit ==
  /\ InitWith(ScLive.cfg, ScLive.lim)
  /\ graph = NewGraph
  /\ drain = NoDrain
  /\ condition = NoCondition
  /\ sql = NoQuery
  /\ mu = NoMutex

\* processCycle, every 5 s
CycleStep == \E l \in loops : CycleLoad(l)

\* CycleStep can be taken: a loop is between two cycles
CycleEnabled == \E l \in loops : l.pc = "idle"

\* processCycle's loop over the ready items
ItemStep ==
  \/ \E l \in loops : ItemFail(l)
  \/ \E l \in loops : ItemSkip(l)
  \/ \E l \in loops : ItemExternalCheck(l)
  \/ \E l \in loops : ItemExternalWait(l)
  \/ \E l \in loops, out \in SubmitOutcomes : ItemSubmit(l, out)
  \/ \E l \in loops : ItemWrite(l)

MonitorStep ==
  \/ \E m \in monitors : PollDone(m)
  \/ \E m \in monitors : PollRetry(m)
  \/ \E m \in monitors, out \in SubmitOutcomes : Resubmit(m, out)
  \/ \E m \in monitors : ResubmitWrite(m)
  \/ \E m \in monitors : JobDoneError(m)
  \/ \E m \in monitors : JobDoneOk(m)

WarehouseStep == \E b \in DOMAIN bq, res \in Results : BQFinish(b, res)

WaitStep ==
  \/ \E t \in TableIds : ExternalTimeout(t)
  \/ \E t \in TableIds, out \in SubmitOutcomes : ExternalLoad(t, out)

LiveNext ==
  \/ \E f \in Freqs, u \in lim.users : Assemble(f, u)
  \/ CycleStep
  \/ ItemStep
  \/ MonitorStep
  \/ WarehouseStep
  \/ WaitStep

\* a wait whose timeout goroutine is still waiting ends
WaitEnds == \E t \in TableIds : waits[t].timer /\ WaitStep

LiveSpec ==
  /\ LiveInit /\ [][LiveNext]_vars
  /\ ([]<>~CycleEnabled \/ []<><<CycleStep>>_vars)
  /\ WF_vars(ItemStep) /\ WF_vars(MonitorStep) /\ WF_vars(WarehouseStep)
  /\ WF_vars(WaitEnds)

\* --------------------------------------------------------------- properties
\* C1: a job with an empty warehouse-side id is submitted only when every
\* table of its parents list that has a job in the run has that job done with
\* an empty error.
C1_ParentsDoneAtSubmit == \A b \in DOMAIN bq : bq[b].pok

\* C2: at most one run row of a frequency has a null end-time, and an Assemble
\* attempted while such a row exists inserts no run row and no job (and
\* starts no loop).
C2_OneOpenRunPerFrequency ==
  /\ [](\A r1, r2 \in RunIds :
          (r1 # r2 /\ runs[r1].freq = runs[r2].freq)
            => (runs[r1].ended \/ runs[r2].ended))
  /\ [][\A f \in Freqs, u \in lim.users :
          (Assemble(f, u) /\ \E r \in RunIds : runs[r].freq = f /\ ~runs[r].ended)
            => (runs' = runs /\ jobs' = jobs /\ loops' = loops)]_vars

\* an Assemble was refused while a run of the frequency had no end-time
C2_Witness ==
  /\ ev.kind = "assemble_refused"
  /\ \E r \in RunIds : ~runs[r].ended

\* C3: StartJob is called for a job whose bq_job_id is non-empty only by a
\* monitor that fetched a status with the Retrying marker.
C3_SubmittedOnce ==
  \A b \in DOMAIN bq : bq[b].prev # Nil => bq[b].via = "retry"

\* C4: a job for which StartJob succeeded at its first attempt in one life of
\* the process gets no other warehouse job started after a restart, unless a
\* monitor resubmits it on the Retrying marker.
C4_OneStartAcrossRestart ==
  \A b1, b2 \in DOMAIN bq :
    (bq[b1].job = bq[b2].job /\ bq[b1].attempt = 1 /\ bq[b1].life < bq[b2].life)
      => bq[b2].via = "retry"

\* would a processCycle of run r, with maxErrCnt max, that starts now submit,
\* enqueue or register job j
Startable(r, max, j) ==
  LET byId == loadRunUnfinishedById(r, max)
      ri == ReadyItems(graphFromJobsById(byId))
  IN \E i \in DOMAIN ri.items :
       LET t == ri.items[i]
           row == jobs[byId[t]]
       IN /\ byId[t] = j
          /\ row.err = "" /\ row.bqid = Nil
          /\ \/ row.type # "load"
             \/ /\ imports[t] = ImpNone
                /\ IsImport(t) \/ (IsExternal(t) /\ ~waits[t].on)

\* C5: when processCycle has submitted a job (submitJob returned nil),
\* enqueued its import or registered its external wait, a processCycle of
\* the run that starts right then does not start the job.
C5_SecondCycleStartsNothing ==
  ev.kind \in {"submitted", "start_job_retried", "set_queued", "external_wait"}
    => \A l \in loops : l.run = ev.run => ~Startable(l.run, l.max, ev.job)

\* C6: no job row of the catalog holds a status with the Retrying marker, and
\* no run has failed with the error of such a status.
C6_NoRetryingStatus ==
  /\ \A j \in JobIds : jobs[j].err # "retry"
  /\ \A r \in RunIds : runs[r].error.of # "retry"

\* a monitor has fetched a status with the Retrying marker for a job of a run
\* whose loop is running
C6_Witness ==
  \E m \in monitors :
    /\ m.pc = "resub"
    /\ \E l \in loops : l.run = m.row.run

\* C7: a job whose bq_job_id is the id a resubmit wrote, and which has no
\* end-time in the catalog, has a monitor.
C7_MonitoredAfterResubmit ==
  \A b \in DOMAIN bq :
    (bq[b].via = "retry" /\ bq[b].written /\ jobs[bq[b].job].bqid = b
       /\ ~jobs[bq[b].job].ended)
      => \E m \in monitors : m.job = bq[b].job

\* C8: a GetJob error leaves the catalog alone and the monitor waiting on the
\* same bq_job_id, its delay at most 15 s and not below the delay before.
C8_PollErrorNotFatal ==
  [][\A m \in monitors, r \in lim.rands :
       PollError(m, r)
         => /\ jobs' = jobs /\ tables' = tables /\ runs' = runs /\ loops' = loops
            /\ \E n \in monitors' :
                 /\ n.job = m.job /\ n.row = m.row /\ n.pc = "wait"
                 /\ n.backoff <= maxBackoff
                 /\ n.backoff >= m.backoff]_vars

\* a GetJob error after which the monitor's delay is the cap
C8_Witness ==
  /\ ev.kind = "poll_error"
  /\ \E m \in monitors : m.job = ev.job /\ m.backoff = maxBackoff

\* C9: a warehouse job for which submitJob returned nil has its id in the
\* catalog.
C9_ReturnedNilMeansWritten ==
  \A b \in DOMAIN bq : bq[b].acked => bq[b].written

\* C10 as stated: no run is failed by a StartJob failure.
C10_SubmitFailureKeepsRun ==
  \A r \in RunIds : runs[r].error.kind # "submit"

\* C10, amended: a StartJob failure that submitJob returns to processCycle
\* fails the run: the error is stored on the table, the run gets its end-time
\* and error, its loop returns, and the job is left as it was.
C10_SubmitFailureFailsRun ==
  [][\A l \in loops, out \in {"temp_fail", "fail"} :
       ItemSubmit(l, out)
         => /\ runs'[l.run].ended /\ runs'[l.run].error.kind = "submit"
            /\ \A n \in loops' : n.id # l.id
            /\ tables'[Item(l).row.table] = [running |-> FALSE, error |-> "submit"]
            /\ jobs' = jobs /\ bq' = bq]_vars

\* processCycle has just returned a StartJob failure
C10_Witness ==
  /\ ev.kind = "submit_failed"
  /\ runs[ev.run].ended
  /\ jobs[ev.job].bqid = Nil

\* the jobs of run r that the catalog holds as finished with an error that
\* carries neither marker
TerminalErrors(r) ==
  {j \in JobIds : /\ jobs[j].run = r /\ jobs[j].state = "DONE"
                  /\ jobs[j].err \notin {"", "retry", "schema"}}

\* no behaviour of the scenario calls Resume
NeverResumed == lim.kinds \cap {"resume", "resume_failed"} = {}

HasErrorItem(l) == \E i \in DOMAIN l.ready : l.ready[i].row.err # ""

\* C11: in a run that is never resumed, a processCycle that starts while a job
\* of the run is finished with an error (neither marker) has that job among
\* its ready items and keeps it there until it returns the job's error; the
\* run then gets its end-time and that error and the loop returns; and the
\* loop of a run that has its end-time starts nothing.
C11_ErroredJobFailsRun ==
  /\ [][\A l \in loops :
          (CycleLoad(l) /\ NeverResumed /\ TerminalErrors(l.run) # {})
            => \E n \in loops' : n.id = l.id /\ n.pc = "items" /\ HasErrorItem(n)]_vars
  /\ [][\A l \in loops, n \in loops' :
          (NeverResumed /\ HasErrorItem(l) /\ n.id = l.id /\ ev'.kind # "restart")
            => HasErrorItem(n)]_vars
  /\ [][\A l \in loops :
          (ItemFail(l) /\ NeverResumed)
            => /\ runs'[l.run].ended
               /\ runs'[l.run].error = [kind |-> "job", of |-> Item(l).row.err]
               /\ \A n \in loops' : n.run # l.run]_vars
  /\ [](NeverResumed => \A l \in loops : ~runs[l.run].ended)

\* the monitorRun goroutines of resumed runs that have counted their errors,
\* where every Resume of the scenario is the Resume of a failed run
ResumedLoops ==
  {l \in loops : l.ign /\ l.pc # "init" /\ "resume" \notin lim.kinds}

\* the jobs of run r that a processCycle would start if every errored job of
\* the run counted as done: not submitted, and every listed parent's job done
ChildrenOfDone(r) ==
  {j \in JobIds :
     /\ jobs[j].run = r /\ jobs[j].bqid = Nil /\ jobs[j].err = ""
     /\ jobs[j].type = "query"
     /\ \A p \in jobs[j].parents :
          LatestJobOf(p, r) # Nil => jobs[LatestJobOf(p, r)].state = "DONE"}

ReadyIds(l) == {l.ready[i].id : i \in DOMAIN l.ready}

\* C12: the loop of a resumed run tolerates the k errored jobs the run had
\* when Resume was called (schema mismatches not counted): no error joins the
\* count between Resume and the loop's countErrors, a processCycle that finds
\* at most k errored jobs takes none of them as an item and takes their
\* children whose other parents are done, and a processCycle that finds more
\* than k takes an errored job as an item, which fails the run.
C12_ResumeToleratesCountedErrors ==
  /\ [][\A l \in loops :
          (ev.kind = "resume_failed" /\ l.run = ev.run /\ l.pc = "init"
             /\ l \in loops')
            => countErrors(l.run)' = countErrors(l.run)]_vars
  /\ [][\A l \in loops :
          LoopInit(l) => \E n \in loops' : n.id = l.id /\ n.max = countErrors(l.run)]_vars
  /\ [][\A l \in ResumedLoops :
          (CycleLoad(l) /\ countErrors(l.run) <= l.max)
            => \/ runs'[l.run].ended /\ runs'[l.run].error = NoError
               \/ \E n \in loops' :
                    /\ n.id = l.id /\ ~HasErrorItem(n)
                    /\ ChildrenOfDone(l.run) \subseteq ReadyIds(n)]_vars
  /\ [][\A l \in ResumedLoops :
          (CycleLoad(l) /\ countErrors(l.run) > l.max)
            => \E n \in loops' : n.id = l.id /\ n.pc = "items" /\ HasErrorItem(n)]_vars

\* C13: when the timeout of an external wait passes, the table's error is set
\* to the timeout error and the table's entry leaves Model.externalWaits: no
\* entry is in the registry without its timeout pending.
C13_TimeoutRemovesWait ==
  /\ [][\A t \in TableIds :
          ExternalTimeout(t)
            => tables'[t].error = "timeout" /\ ~waits'[t].on]_vars
  /\ [](\A t \in TableIds : waits[t].on => waits[t].timer)

\* the timeout goroutines of table t that are waiting
WaitingTasks(t) == (IF waits[t].timer THEN 1 ELSE 0) + waits[t].orphans

\* C14: startExternalWait never writes the entry of a table that has one (the
\* coordinator's call and a user's call alike), and at most one timeout
\* goroutine of a table is waiting.
C14_OneWaitPerTable ==
  /\ [][\A l \in loops :
          ItemExternalWait(l) => ~waits[Item(l).row.table].on]_vars
  /\ [][\A c \in calls : RunExternalWait(c) => ~waits[c.table].on]_vars
  /\ [](\A t \in TableIds : WaitingTasks(t) <= 1)

\* the import tasks of table t that are on importQueue or with a worker
ImportTasks(t) ==
  Cardinality({i \in DOMAIN queue : queue[i].table = t})
    + Cardinality({k \in tasks : k.table = t})

\* C15: at most one import task of a table is on the queue or with a worker,
\* whoever asked for it.
C15_OneImportTaskPerTable == \A t \in TableIds : ImportTasks(t) <= 1

\* C16: when the monitor handles the schema-mismatch error of a run's load job
\* whose table has no error, one reimport of the table is queued, with a new
\* load job of the run, the import-status is that of the queued reimport and
\* the schema error is on the table; the monitor does so only while the table
\* has no error; and a job of the table that completes without error leaves
\* no schema error on the table.
C16_SchemaMismatchReimportsOnce ==
  /\ [][\A m \in monitors :
          JobDoneReimport(m)
            => LET t == m.row.table
               IN /\ tables[t].error = ""
                  /\ Len(queue') = Len(queue) + 1
                  /\ queue'[Len(queue')].table = t
                  /\ queue'[Len(queue')].job \notin JobIds
                  /\ jobs'[queue'[Len(queue')].job].run = m.row.run
                  /\ imports'[t] = ImpQueued
                  /\ tables'[t].error = "schema"]_vars
  /\ [][\A m \in monitors :
          (m.pc = "saved" /\ m.row.err = "schema" /\ m \notin monitors'
             /\ tables[m.row.table].error # "")
            => queue' = queue /\ jobs' = jobs]_vars
  /\ [][\A m \in monitors :
          JobDoneOk(m) => tables'[m.row.table].error # "schema"]_vars

\* C17 as stated: when the monitor handles a terminal error that is neither
\* retried nor handled as a schema mismatch, the error is stored on the table
\* and the table's running flag is left as it was.
C17_ErrorKeepsRunning ==
  [][\A m \in monitors :
       JobDoneError(m)
         => /\ tables'[m.row.table].error = m.row.err
            /\ tables'[m.row.table].running = tables[m.row.table].running]_vars

\* C17, amended: the error is stored on the table and the table's running
\* flag is set to false.
C17_ErrorResetsRunning ==
  [][\A m \in monitors :
       JobDoneError(m)
         => /\ tables'[m.row.table].error = m.row.err
            /\ ~tables'[m.row.table].running]_vars

\* the monitor has handled such an error of a job whose table was marked
\* running when the job was submitted
C17_Witness ==
  \E j \in JobIds :
    /\ jobs[j].state = "DONE" /\ jobs[j].err = "other" /\ jobs[j].type = "query"
    /\ \A m \in monitors : m.job # j
    /\ tables[jobs[j].table] = [running |-> FALSE, error |-> "other"]

\* the warehouse jobs of table t that StartJob started and that have not
\* finished
UnfinishedWork(t) ==
  {b \in DOMAIN bq : jobs[bq[b].job].table = t /\ bq[b].result = "running"}

\* C18: whatever starts work for a table (processCycle submitting a query
\* job, queueing an import or registering an external wait; a user running
\* the table) does so only when the table's running flag is false in the
\* catalog, and no table has two warehouse jobs started and not finished.
C18_RunningNotStartedAgain ==
  /\ [][\A l \in loops, out \in SubmitOutcomes :
          ItemSubmit(l, out) => ~tables[Item(l).row.table].running]_vars
  /\ [][\A l \in loops :
          (ItemEnqueue(l) \/ ItemExternalWait(l))
            => ~tables[Item(l).row.table].running]_vars
  /\ [][\A c \in calls :
          (RunExternalWait(c) \/ RunImportEnqueue(c))
            => ~tables[c.table].running]_vars
  /\ [][\A t \in TableIds, out \in SubmitOutcomes :
          (RunQuery(t, out) /\ tables[t].running)
            => bq' = bq /\ jobs' = jobs]_vars
  /\ [](\A t \in TableIds : Cardinality(UnfinishedWork(t)) <= 1)

\* the rows Assemble inserted for run r: those of the run's first jobs, one
\* per table, before any reimport added a job
AssembledJobs(r) ==
  {j \in JobIds : jobs[j].run = r
     /\ \A k \in JobIds : (jobs[k].run = r /\ jobs[k].table = jobs[j].table)
                            => j <= k}

\* C19: every table id in the parents list of a job Assemble inserted is the
\* table of another job of the same run, and not the job's own table.
C19_ParentsAreJobsOfTheRun ==
  \A r \in RunIds : \A j \in AssembledJobs(r) : \A p \in jobs[j].parents :
    /\ p # jobs[j].table
    /\ \E k \in AssembledJobs(r) : jobs[k].table = p

\* the tables a run of frequency f assembled at moment now has a job for: the
\* live tables of the frequency with no run-conditions or with one that the
\* moment satisfies
DueTables(f, now) ==
  {t \in TableIds :
     /\ Live(t) /\ cfg.freq[t] = f
     /\ \/ Conditions(t) = <<>>
        \/ \E i \in 1..Len(Conditions(t)) : now \in Conditions(t)[i]}

\* C20: Assemble inserts exactly one job for each live table of the run's
\* frequency whose run-conditions are empty or hold one condition satisfied
\* at the assembly moment, and none for another table; the job is a query for
\* a summary table and a load for an import or external table, with an empty
\* warehouse id; Assemble on a run that has its id inserts nothing.
C20_AssembleOneJobPerDueTable ==
  [][/\ \A f \in Freqs, u \in lim.users :
          (Assemble(f, u) /\ Len(runs') > Len(runs)) =>
            LET r == Len(runs')
                new == {j \in DOMAIN jobs' : j > Len(jobs)}
            IN /\ \A j \in new :
                    /\ jobs'[j].run = r
                    /\ jobs'[j].bqid = Nil
                    /\ jobs'[j].table \in DueTables(f, Now)
                    /\ jobs'[j].type =
                         IF cfg.kind[jobs'[j].table] = "summary" THEN "query"
                         ELSE "load"
               /\ \A t \in DueTables(f, Now) :
                    Cardinality({j \in new : jobs'[j].table = t}) = 1
     /\ \A r \in RunIds : AssembleAgain(r) => jobs' = jobs /\ runs' = runs
    ]_vars

\* Assemble was called again on a run that has the job of a table with
\* conditions and of a table without, and none for a table left out by its
\* conditions
C20_Witness ==
  /\ ev.kind = "assemble_again"
  /\ \E t \in TableIds :
       /\ cfg.freq[t] = runs[ev.run].freq
       /\ Conditions(t) # <<>>
       /\ \A j \in JobIds : jobs[j].run = ev.run => jobs[j].table # t
  /\ \E j, k \in JobIds :
       /\ jobs[j].run = ev.run /\ Conditions(jobs[j].table) # <<>>
       /\ jobs[k].run = ev.run /\ Conditions(jobs[k].table) = <<>>
       /\ jobs[j].type = "load" /\ jobs[k].type = "query"

\* a moment of the day h:m:s and frac ten-thousandths of a second, and a
\* duration of m minutes, in ten-thousandths of a second
Moment(h, m, s, frac) == ((h * 60 + m) * 60 + s) * 10000 + frac
Minutes(m) == m * 60 * 10000

C22_LateTickDropped ==
  /\ [](\A i \in DOMAIN ticker.ch :
          LET f == ticker.ch[i].freq
          IN (ticker.ch[i].tooLate - cfg.period[f] - cfg.offset[f])
               % cfg.period[f] = 0)
  /\ [][/\ ReceiveTick =>
             LET t == Head(ticker.ch)
             IN /\ t.tooLate <= ticker.clock =>
                     runs' = runs /\ jobs' = jobs /\ loops' = loops
                /\ Len(runs') > Len(runs) =>
                     /\ t.tooLate > ticker.clock
                     /\ runs'[Len(runs')].freq = t.freq
        /\ (ActiveFreqs # {} /\ Len(runs') > Len(runs)) =>
             ticker.ch # <<>> /\ ticker'.ch = Tail(ticker.ch)
       ]_vars

\* a tick has been dropped after a run was started for an earlier tick
C22_Witness ==
  /\ ev.kind = "tick_dropped"
  /\ \E r \in RunIds : runs[r].user = Nil /\ \E j \in JobIds : jobs[j].run = r

RECURSIVE Closure(_, _)
\* the nodes of S and all that can be reached from them along children
Closure(g, S) ==
  LET T == S \cup UNION {g[m].children : m \in S}
  IN IF T = S THEN S ELSE Closure(g, T)

\* the nodes that can be reached from n in one step or more
Descendants(g, n) == Closure(g, g[n].children)

OnCycle(g, n) == n \in Descendants(g, n)
Acyclic(g) == \A n \in DOMAIN g : ~OnCycle(g, n)

\* the nodes other than the sentinel, and the number of descendants of one
Named(g) == DOMAIN g \ {csName}
Progeny(g, n) == Cardinality(Descendants(g, n) \ {n, csName})

\* C23: ReadyItems returns exactly the nodes with no parents, the sentinel
\* left out, each once, by descending score, for every graph that Relate and
\* RemoveItem calls lead to, with or without cycles.
C23_ReadyItemsAreTheParentless ==
  drain.called = "ready" =>
    LET roots == {n \in Named(graph) : graph[n].parents = {}}
    IN /\ Range(drain.ready) = roots
       /\ Len(drain.ready) = Cardinality(roots)
       /\ \A i, j \in DOMAIN drain.ready :
            i < j => Progeny(graph, drain.ready[i])
                       >= Progeny(graph, drain.ready[j])

\* C24: for a graph built by Relate calls without a cycle, ReadyItems returns
\* no error and at least one item while a node other than the sentinel
\* remains, and the loop of ReadyItems and RemoveItem on every item returned
\* ends with no such node left: every turn of the loop leaves fewer nodes,
\* and the loop is left with none.
C24_AcyclicDrains ==
  /\ []((drain.pc \in {"drain", "done"} /\ drain.relateOnly /\ Acyclic(graph))
          => /\ ~drain.err
             /\ Named(graph) # {} => drain.ready # <<>>
             /\ drain.pc = "done" => Named(graph) = {})
  /\ [][(drain.pc = "drain" /\ drain.relateOnly /\ Acyclic(graph)) =>
          \/ drain'.pc = "done" /\ Named(graph) = {} /\ graph' = graph
          \/ /\ drain'.pc = "drain"
             /\ Cardinality(Named(graph')) < Cardinality(Named(graph))
             /\ Named(graph') = Named(graph) \ Range(drain.ready)
       ]_vars

\* the loop is under way on a graph without a cycle and has items left that
\* wait for a parent
C24_Witness ==
  /\ drain.pc = "drain" /\ drain.relateOnly /\ Acyclic(graph)
  /\ Cardinality(Named(graph)) < drain.ops
  /\ \E n \in Named(graph) : graph[n].parents # {}

\* C25: for a graph with a cycle, a self-edge included, the loop ends with
\* ReadyItems returning the cycle error, and the error is returned only when
\* every node left has an ancestor on a cycle.
C25_CycleDetected ==
  (drain.pc \in {"drain", "done"} /\ drain.relateOnly /\ ~Acyclic(graph)) =>
    /\ drain.pc = "done" => drain.err
    /\ drain.err =>
         \A n \in Named(graph) :
           \E a \in Named(graph) :
             OnCycle(graph, a) /\ (a = n \/ n \in Descendants(graph, a))

\* C26: Scores returns one entry for every node other than the sentinel, its
\* score the number of the node's descendants without the node itself, by
\* descending score, and no entry for the sentinel.
C26_ScoresOfEveryNode ==
  drain.called = "ready" =>
    /\ {drain.scores[i].Name : i \in DOMAIN drain.scores} = Named(graph)
    /\ Len(drain.scores) = Cardinality(Named(graph))
    /\ \A i \in DOMAIN drain.scores :
         drain.scores[i].Score = Progeny(graph, drain.scores[i].Name)
    /\ \A i, j \in DOMAIN drain.scores :
         i < j => drain.scores[i].Score >= drain.scores[j].Score

\* C27: RemoveItem(name) returns an error and leaves the graph as it is when
\* the node has a parent; otherwise it deletes the node and takes it out of
\* the parents of each of its children, and leaves every other node and edge.
C27_RemoveItem ==
  [][\A n \in Names \cup {csName} :
       GraphRemoveItem(n) =>
         IF n \in DOMAIN graph /\ graph[n].parents # {}
           THEN drain'.err /\ graph' = graph
           ELSE /\ ~drain'.err
                /\ DOMAIN graph' = DOMAIN graph \ {n}
                /\ \A m \in DOMAIN graph' :
                     /\ graph'[m].children = graph[m].children
                     /\ graph'[m].parents = graph[m].parents \ {n}
    ]_vars

\* a node with children was removed; one of the children has another parent
C27_Witness ==
  /\ drain.called = "remove" /\ ~drain.err
  /\ drain.arg \notin DOMAIN graph
  /\ \E m \in drain.had : graph[m].parents # {}

\* the field of moment t that a set of a Condition is about
FieldOf(t, k) ==
  CASE k = "months" -> t.month
    [] k = "weekdays" -> Weekday(t)
    [] k = "days" -> t.day
    [] k = "hours" -> t.hour

\* C28: Satisfied is true exactly when the moment's field is in every set
\* that is not empty; a Condition of four empty sets is satisfied always.
C28_SatisfiedEveryNonEmptySet ==
  condition.called = "satisfied" =>
    /\ condition.sat <=>
         \A k \in Range(Fields) :
           condition.c[k] # {} => FieldOf(condition.at, k) \in condition.c[k]
    /\ (\A k \in Range(Fields) : condition.c[k] = {}) => condition.sat

\* a Condition with two sets that are not empty was asked about a moment in
\* one of them only
C28_Witness ==
  /\ condition.called = "satisfied" /\ ~condition.sat
  /\ condition.c.months # {} /\ condition.at.month \in condition.c.months
  /\ condition.c.hours # {} /\ condition.at.hour \notin condition.c.hours
  /\ condition.c.days = {}

At(y, m, d, h) == [year |-> y, month |-> m, day |-> d, hour |-> h]

\* C29 as stated: {weekdays:{Mon}, hours:{9}} is satisfied by
\* 2017-08-28T09:00Z, not by 2017-08-28T10:00Z, not by 2017-08-21T09:00Z.
C29_MondaysAt9 ==
  (condition.called = "satisfied" /\ condition.c = MondaysAt9) =>
    /\ condition.at = At(2017, 8, 28, 9) => condition.sat
    /\ condition.at = At(2017, 8, 28, 10) => ~condition.sat
    /\ condition.at = At(2017, 8, 21, 9) => ~condition.sat

\* C29 amended: {weekdays:{Mon}, hours:{9}} is satisfied by 2017-08-28T09:00Z
\* and by 2017-08-21T09:00Z, both Mondays, and not by 2017-08-28T10:00Z.
C29_BothMondaysAt9 ==
  (condition.called = "satisfied" /\ condition.c = MondaysAt9) =>
    /\ condition.at = At(2017, 8, 28, 9) => condition.sat
    /\ condition.at = At(2017, 8, 28, 10) => ~condition.sat
    /\ condition.at = At(2017, 8, 21, 9) => condition.sat

\* the Condition was asked about 2017-08-21T09:00Z
C29_Witness ==
  /\ condition.called = "satisfied" /\ condition.c = MondaysAt9
  /\ condition.at = At(2017, 8, 21, 9)

\* C30: a Condition marshalled and unmarshalled has the same four sets, every
\* array of the JSON is in ascending order, and a field the JSON does not
\* have is unmarshalled to the empty set.
C30_JSONRoundTrip ==
  /\ condition.called = "roundtrip" =>
       \A k \in Range(Fields) : condition.c[k] = condition.src[k]
  /\ condition.called \in {"marshal", "roundtrip"} =>
       \A i \in DOMAIN condition.data :
         \A a, b \in DOMAIN condition.data[i].arr :
           a < b => condition.data[i].arr[a] < condition.data[i].arr[b]
  /\ condition.called = "unmarshal" =>
       \A k \in Range(Fields) :
         (\A i \in DOMAIN condition.data : condition.data[i].key # k)
           => condition.c[k] = {}

\* a Condition with a set of two numbers, given out of order, and a field
\* that was missing went through Marshal and Unmarshal
C30_Witness ==
  /\ condition.called = "roundtrip"
  /\ \E i \in DOMAIN condition.data : Len(condition.data[i].arr) = 2
  /\ Len(condition.data) = 4
  /\ \E k \in Range(Fields) : condition.c[k] = {}

\* C40: the parents list of each job Assemble inserted is the one computed
\* from the job's own table, also where two tables of the run have one name
\* in two datasets.
C40_ParentsOfOwnTable ==
  \A r \in RunIds : \A j \in AssembledJobs(r) :
    jobs[j].type = "query" =>
      jobs[j].parents = singleTableParents(jobs[j].table)

\* the tokens of a text told from its pieces: its words in order, with an
\* empty token before a leading and after a trailing separator
IsWord(x) == x \notin Delims

TokensOf(q) ==
  IF q = <<>> THEN <<"">>
  ELSE (IF q[1] \in Delims THEN <<"">> ELSE <<>>)
         \o SelectSeq(q, IsWord)
         \o (IF q[Len(q)] \in Delims THEN <<"">> ELSE <<>>)

Introducers == {"from", "join", "table_date_range"}

\* C31: the extractor returns exactly the tokens, in their original case, of
\* the comment-stripped query whose preceding token lowercased is from, join
\* or table_date_range and which lowercased are neither empty nor select nor
\* table_date_range, without duplicates and in ascending string order.
C31_TablesInQuery ==
  sql.pc = "held" =>
    LET toks == TokensOf(sql.query)
        named == {toks[i] : i \in {j \in 2..Len(toks) :
                    /\ ToLower(toks[j - 1]) \in Introducers
                    /\ ToLower(toks[j]) \notin
                         {"", "select", "table_date_range"}}}
        res == sql.result
    IN /\ {res[i] : i \in 1..Len(res)} = named
       /\ \A i \in 1..Len(res) - 1 : Rank(res[i]) < Rank(res[i + 1])

\* two tables named after FROM and join come back in string order, in the
\* case they were written in
C31_Witness ==
  /\ sql.pc = "held"
  /\ sql.query = <<"FROM", " ", "t2", "(", "join", " ", "T1">>
  /\ sql.result = <<"T1", "t2">>

\* C32: the load phase of an import task submits a load job only when the
\* import-status of its table reads done, and a task whose extract succeeded
\* finds done there when its load phase reads the status, however the
\* producer (which writes queued after its send) and the worker interleave.
C32_LoadFindsDone ==
  /\ [][\A k \in tasks : \A out \in Results :
          ImportLoad(k, out) => imports[k.table] = ImpDone]_vars
  /\ [][\A k \in tasks : ~ImportLoadRefused(k)]_vars

\* C33: no goroutine does a blocking operation (catalog write, warehouse,
\* object-store or Slack call, channel send, sleep) while it holds the mutex
\* of the import-status map and the external-wait map, and every read or
\* write of either map is done by the goroutine that holds the mutex.
C33_MutexDiscipline ==
  /\ mu.last.op \in Blocking => ~mu.last.held
  /\ mu.last.op \in MapOps => mu.last.held
  /\ \A g \in Goroutines : mu.th[g].fn = "" => mu.holder # g

\* one goroutine writes the external-wait entry under the mutex while the
\* other is about to send on importQueue without it
C33_Witness ==
  /\ mu.last = [g |-> 1, op |-> "write_waits", held |-> TRUE]
  /\ mu.th[2].fn = "queueImport"
  /\ Programs["queueImport"][mu.th[2].pc].op = "send"

\* C35: whenever an import task stops without having submitted its load job
\* (a failure in the extract phase or in the load phase), the import-status
\* of its table is left as error, never as queued, running or done.
C35_StoppedImportIsError ==
  /\ [][\A out \in ExtractOutcomes \ {"ok"} :
          ImportExtract(out) => imports'[Head(queue).table] = ImpError]_vars
  /\ [][\A k \in tasks :
          ImportLoadRefused(k) => imports'[k.table] = ImpError]_vars
  /\ [][\A k \in tasks : \A out \in SubmitOutcomes :
          (ImportLoad(k, out) /\ ~Mints(out))
            => imports'[k.table] = ImpError]_vars

\* the cycle loops of run r
LoopsOf(r) == {l \in loops : l.run = r}

\* C36: at most one cycle loop of a run exists at any time: a Resume of a run
\* whose end-time is null starts no second loop, and no job is submitted by
\* two loops of one run.
C36_OneLoopPerRun ==
  /\ [](\A r \in RunIds : Cardinality(LoopsOf(r)) <= 1)
  /\ [][\A r \in RunIds :
          (Resume(r) /\ ~runs[r].ended) => LoopsOf(r)' = LoopsOf(r)]_vars

\* the run has its end-time and no error, and no run has been resumed
EndedClean(r) ==
  runs[r].ended /\ runs[r].error = NoError /\ used.resumes = 0

\* the jobs of run r
JobsOfRun(r) == {j \in JobIds : jobs[j].run = r}

\* C37: when the end-time of a run that was not resumed is stamped with no
\* error, every job of the run (the load jobs inserted by a schema-mismatch
\* reimport included) is done with an empty error, and no job is inserted
\* into the run afterwards.
C37_EndedRunIsComplete ==
  /\ [](\A r \in RunIds :
          EndedClean(r)
            => \A j \in JobsOfRun(r) :
                 jobs[j].state = "DONE" /\ jobs[j].err = "")
  /\ [][\A r \in RunIds :
          EndedClean(r) => JobsOfRun(r)' = JobsOfRun(r)]_vars

\* the run rows of frequency f with a null end-time
OpenRuns(f) == {r \in RunIds : runs[r].freq = f /\ ~runs[r].ended}

\* C38: when Assemble returns an error after it has inserted the run row, it
\* leaves no run row with a null end-time behind (so that a later tick of the
\* frequency can assemble and start a run).
C38_FailedAssembleLeavesNoOpenRun ==
  [][\A f \in Freqs, u \in lim.users :
       AssembleFails(f, u) => OpenRuns(f)' = {}]_vars

\* a load of table t may still complete: a worker holds a task of the table,
\* or the warehouse runs a load job of it, or one is to be resubmitted
LoadInFlight(t) ==
  \/ \E k \in tasks : k.table = t
  \/ \E b \in DOMAIN bq :
       /\ jobs[bq[b].job].table = t /\ jobs[bq[b].job].type = "load"
       /\ \/ bq[b].result = "running"
          \/ \E m \in monitors : m.job = bq[b].job /\ m.pc \in {"resub", "rwrite"}

\* C39: the last_id of an incremental import table never moves past a row
\* that is not loaded: after a load that failed, was never submitted or was
\* cut by a kill, the next import of the table reads again every row that
\* the warehouse table does not hold.
C39_NextImportReadsUnloadedRows ==
  [][ImportExtract("ok")
       => LET k == Head(queue)
          IN LoadInFlight(k.table)
               \/ SourceRows \ rows[k.table].loaded \subseteq RowsAfter(k.from)]_vars

=============================================================================
